---- MODULE Spec2Model ----
(***************************************************************************)
(* OpenMarket: the transactional service layer (app/core/services.py) and  *)
(* the stock movement hook (app/core/models.py).                           *)
(*                                                                         *)
(* Money is an integer number of cents (Numeric(12,2)); a quantity is an   *)
(* integer number of ten-thousandths (Numeric(14,4)).  db is the committed *)
(* database; a service call is evaluated on a working copy of it (the ORM  *)
(* session) and transaction() either commits the copy or discards it.      *)
(***************************************************************************)
EXTENDS Integers, Sequences, FiniteSets, TLC

VARIABLES
    db,     \* the committed database (one field per table)
    prev,   \* history: the committed database before the last request
    last,   \* history: the last request, [op, ok, k] (k: its arguments)
    txn,    \* concurrent unit-of-work model: per transaction, its state
    lock    \* concurrent unit-of-work model: row lock holder per StockItem key

vars == <<db, prev, last, txn, lock>>

-----------------------------------------------------------------------------
(* Bounds of the model *)

MaxOps == 6            \* Spec: requests stop once the audit log has this many rows

(* Scales of the fixed-point columns *)
QtdScale == 10000      \* QTD = Numeric(14, 4)
RawScale == 10         \* a raw input carries one more decimal than its column

NoId == 0              \* None, for a nullable integer column or argument

-----------------------------------------------------------------------------
(* Ledger primitives *)

\* Decimal.quantize(..., rounding=ROUND_HALF_UP) of n/d (d > 0): ties go away
\* from zero, also for a negative value.
RoundHalfUp(n, d) ==
    IF n >= 0 THEN (2 * n + d) \div (2 * d)
              ELSE -((2 * (-n) + d) \div (2 * d))

\* _as_money of the value n/(MoneyScale*s): the number of cents.
_as_money(n, s) == RoundHalfUp(n, s)

\* _as_qtd of the value n/(QtdScale*s): the number of ten-thousandths.
_as_qtd(n, s) == RoundHalfUp(n, s)

Fail(d) == [ok |-> FALSE, db |-> d]
Ok(d) == [ok |-> TRUE, db |-> d]

\* with transaction(): commit when the block returns, rollback when it raises.
transaction_norollback(res, committed) == res.db

transaction(res, committed) == IF res.ok THEN res.db ELSE committed

audit_log(d, store_id, entidade, entidade_id, acao) ==
    [d EXCEPT !.audit_logs = Append(@, [store_id |-> store_id, entidade |-> entidade,
                                        entidade_id |-> entidade_id, acao |-> acao])]

-----------------------------------------------------------------------------
(* Stock movement engine *)

SaidaTiposSemAjuste == {"saida_venda"}

SaidaTipos == {"saida_venda", "saida_ajuste"}

StockMove(store_id, product_id, tipo, qtd, custo, ref_origem, ref_id) ==
    [store_id |-> store_id, product_id |-> product_id, tipo |-> tipo, qtd |-> qtd,
     custo |-> custo, ref_origem |-> ref_origem, ref_id |-> ref_id]

\* Cm = (Cm_old*(Qt - q) + c*q) / Qt, quantized to cents; Qt is the quantity
\* after the move.
CustoMedioPesoNovo(Cm_old, Qt, q, c) ==
    IF Qt > 0 THEN _as_money(Cm_old * Qt + c * q, Qt) ELSE c

\* The average were it to be the cost of the last entry.
CustoMedioUltimoCusto(Cm_old, Qt, q, c) == c

\* The average were it to add the two costs.
CustoMedioSoma(Cm_old, Qt, q, c) == Cm_old + c

CustoMedio(Cm_old, Qt, q, c) ==
    IF Qt > 0 THEN _as_money(Cm_old * (Qt - q) + c * q, Qt) ELSE c

_apply_stock_move_so_entrada(d, mv) ==
    LET key == <<mv.store_id, mv.product_id>>
        novo == d.stock_items[key] + mv.qtd
        d1 == [d EXCEPT !.stock_items[key] = novo]
    IN IF mv.tipo = "entrada_compra" /\ mv.product_id \in 1..Len(d.products)
       THEN Ok([d1 EXCEPT !.products[mv.product_id].custo_atual =
                    CustoMedio(@, novo, mv.qtd, mv.custo)])
       ELSE Ok(d1)

\* The after_insert hook of StockMove, on the session's view d.  The hook's
\* assignments to the StockItem and the Product are taken to reach their rows
\* in the transaction of the insert, as the hook is written to do.
_apply_stock_move(d, mv) ==
    LET key == <<mv.store_id, mv.product_id>>
    IN IF key \notin DOMAIN d.stock_items
       THEN Fail(d)   \* lazy creation flushes inside a flush: the session raises
       ELSE LET cur == d.stock_items[key]
                novo == IF mv.tipo \in SaidaTipos THEN cur - mv.qtd ELSE cur + mv.qtd
                d1 == [d EXCEPT !.stock_items[key] = novo]
            IN IF mv.tipo \in SaidaTipos /\ novo < 0
               THEN Fail(d)
               ELSE IF mv.tipo = "entrada_compra" /\ mv.product_id \in 1..Len(d.products)
                    THEN Ok([d1 EXCEPT !.products[mv.product_id].custo_atual =
                                 CustoMedio(@, novo, mv.qtd, mv.custo)])
                    ELSE Ok(d1)

\* The table's checks without ck_stock_moves_custo_nao_negativo.
CkStockMoveSoQtd(mv) == mv.qtd > 0

CkStockMove(mv) == mv.qtd > 0 /\ mv.custo >= 0
CkStockItem(quantidade) == quantidade >= 0

\* db.session.add(StockMove(...)) followed by the flush that inserts the row,
\* fires the hook and updates the StockItem row.
InsertStockMove(d, mv) ==
    IF ~CkStockMove(mv) THEN Fail(d)
    ELSE LET r == _apply_stock_move([d EXCEPT !.stock_moves = Append(@, mv)], mv)
         IN IF r.ok /\ ~CkStockItem(r.db.stock_items[<<mv.store_id, mv.product_id>>])
            THEN Fail(r.db)
            ELSE r

\* Several StockMoves added to the session, flushed in insertion order; the
\* first hook that raises aborts the flush.
RECURSIVE InsertStockMoves(_, _)
InsertStockMoves(d, mvs) ==
    IF mvs = <<>> THEN Ok(d)
    ELSE LET r == InsertStockMove(d, Head(mvs))
         IN IF r.ok THEN InsertStockMoves(r.db, Tail(mvs)) ELSE r

-----------------------------------------------------------------------------
(* Products and stock adjustments *)

GetProduct(d, product_id) == product_id \in 1..Len(d.products)

NoEan == <<"None">>    \* None, for Product.ean and the barcode arguments

Digitos == {"0", "1", "2", "3", "4", "5", "6", "7", "8", "9"}

IsDigito(c) == c \in Digitos

\* A barcode is a sequence of characters; re.sub(r"\D+", "", ean) keeps its
\* digits.
normalize_ean(ean) ==
    IF ean = NoEan \/ ean = <<>> THEN NoEan
    ELSE LET digits == SelectSeq(ean, IsDigito)
         IN IF digits = <<>> THEN NoEan ELSE digits

\* The lengths Product._val_ean accepts: EAN8, UPC-A, EAN13, DUN-14.
ComprimentosEan == {8, 12, 13, 14}

\* The validator were it to accept digits of any length.
_val_ean_qualquer_comprimento(value) == [ok |-> TRUE, v |-> normalize_ean(value)]

\* The validator of Product.ean: it raises (ok FALSE) or returns the value stored.
_val_ean(value) ==
    LET v == normalize_ean(value)
    IN [ok |-> ~(v # NoEan /\ Len(v) \notin ComprimentosEan), v |-> v]

\* uq_products_store_ean: no other product of the store has this barcode.
EanLivre(d, store_id, ean, product_id) ==
    ean = NoEan \/ \A i \in 1..Len(d.products) :
                       i # product_id =>
                           ~(d.products[i].store_id = store_id /\ d.products[i].ean = ean)

\* ck_products_preco_nao_negativo and ck_products_custo_nao_negativo
CkProduct(p) == p.preco_venda >= 0 /\ p.custo_atual >= 0

criar_produto(d, store_id, ean, custo_raw, preco_raw) ==
    LET id == Len(d.products) + 1
        val == _val_ean(normalize_ean(ean))
        p == [store_id |-> store_id, deleted |-> FALSE, ativo |-> TRUE, ean |-> val.v,
              custo_atual |-> _as_money(custo_raw, RawScale),
              preco_venda |-> _as_money(preco_raw, RawScale)]
        d1 == [d EXCEPT !.products = Append(@, p),
                        !.stock_items = @ @@ (<<store_id, id>> :> 0),
                        !.reservado = @ @@ (<<store_id, id>> :> 0)]
    IN IF ~val.ok THEN Fail(d)                             \* ValueError("EAN inválido")
       ELSE IF ~EanLivre(d, store_id, val.v, id) THEN Fail(d1)   \* the flush raises
       ELSE IF ~CkProduct(p) THEN Fail(d1)
       ELSE Ok(audit_log(d1, store_id, "Product", id, "created"))

ajuste_estoque(d, store_id, product_id, qtd_raw, tipo) ==
    LET qtd == _as_qtd(qtd_raw, RawScale) IN
    IF tipo \notin {"entrada_ajuste", "saida_ajuste"} THEN Fail(d)
    ELSE IF ~(qtd > 0) THEN Fail(d)
    ELSE IF ~(GetProduct(d, product_id)
              /\ d.products[product_id].store_id = store_id
              /\ ~d.products[product_id].deleted) THEN Fail(d)
    ELSE LET custo == IF tipo = "entrada_ajuste"
                      THEN d.products[product_id].custo_atual ELSE 0
             r == InsertStockMove(d, StockMove(store_id, product_id, tipo, qtd, custo,
                                               "none", NoId))
         IN IF r.ok THEN Ok(audit_log(r.db, store_id, "StockMove", NoId, "adjust"))
                    ELSE r

\* The fields of a Product that atualizar_produto copies from dados.
campos_editaveis ==
    {"nome", "sku", "ean", "categoria_id", "unidade", "ncm", "cest",
     "estoque_minimo", "ponto_pedido", "margem_alvo", "foto_url", "ativo"}

\* dados is a record; the keys outside campos_editaveis are skipped. Of the
\* editable fields the rows of this model carry ean and ativo.
atualizar_produto(d, product_id, dados) ==
    IF ~(GetProduct(d, product_id) /\ ~d.products[product_id].deleted) THEN Fail(d)
    ELSE LET p == d.products[product_id]
             escritos == (DOMAIN dados \cap campos_editaveis) \cap DOMAIN p
             val == IF "ean" \in escritos THEN _val_ean(normalize_ean(dados.ean))
                                          ELSE [ok |-> TRUE, v |-> p.ean]
             p1 == [f \in DOMAIN p |-> IF f = "ean" THEN val.v
                                       ELSE IF f \in escritos THEN dados[f] ELSE p[f]]
             d1 == [d EXCEPT !.products[product_id] = p1]
         IN IF ~val.ok THEN Fail(d)                        \* ValueError("EAN inválido")
            ELSE IF ~EanLivre(d, p.store_id, val.v, product_id) THEN Fail(d1)
            ELSE Ok(audit_log(d1, p.store_id, "Product", product_id, "updated"))

publicar_preco(d, store_id, product_id, preco_raw) ==
    LET preco == _as_money(preco_raw, RawScale) IN
    IF ~(preco >= 0) THEN Fail(d)
    ELSE IF ~(GetProduct(d, product_id)
              /\ d.products[product_id].store_id = store_id
              /\ ~d.products[product_id].deleted) THEN Fail(d)
    ELSE LET pv == [store_id |-> store_id, product_id |-> product_id, preco |-> preco,
                    origem |-> "manual"]
             d1 == [d EXCEPT !.price_versions = Append(@, pv),
                             !.products[product_id].preco_venda = preco]
         IN Ok(audit_log(d1, store_id, "Product", product_id, "price_change"))

-----------------------------------------------------------------------------
(* Product views: they write the row and commit, outside the services *)

\* first_or_404 of Product.query.filter_by(id=pid, store_id=store_id)
ProductOfStore(d, store_id, pid) ==
    GetProduct(d, pid) /\ d.products[pid].store_id = store_id

_role_can_edit(role) == role \in {"admin", "gerente"}

\* POST of the edit form: the row's fields are assigned from the form and
\* committed; a PriceVersion is added when the price changed.
edit(d, role, store_id, pid, form) ==
    IF ~ProductOfStore(d, store_id, pid) THEN Fail(d)
    ELSE IF ~_role_can_edit(role) THEN Fail(d)
    ELSE LET preco_antigo == d.products[pid].preco_venda
             val == _val_ean(form.ean)
             d1 == [d EXCEPT !.products[pid].ean = val.v,
                             !.products[pid].custo_atual = form.custo_atual,
                             !.products[pid].preco_venda = form.preco_venda,
                             !.products[pid].ativo = form.ativo]
             d2 == IF form.preco_venda # preco_antigo
                   THEN [d1 EXCEPT !.price_versions = Append(@,
                            [store_id |-> store_id, product_id |-> pid,
                             preco |-> form.preco_venda, origem |-> "manual"])]
                   ELSE d1
         IN IF ~val.ok THEN Fail(d)                        \* ValueError, caught by the view
            ELSE IF ~EanLivre(d, store_id, val.v, pid) THEN Fail(d2)
            ELSE Ok(d2)

toggle(d, store_id, pid) ==
    IF ~ProductOfStore(d, store_id, pid) THEN Fail(d)
    ELSE Ok([d EXCEPT !.products[pid].ativo = ~@])

delete(d, store_id, pid) ==
    IF ~ProductOfStore(d, store_id, pid) THEN Fail(d)
    ELSE Ok([d EXCEPT !.products[pid].deleted = TRUE, !.products[pid].ativo = FALSE])

-----------------------------------------------------------------------------
(* Point of sale *)

Max(a, b) == IF a >= b THEN a ELSE b

\* The ids of a set of rows, ascending (the order a relationship loads them).
RECURSIVE Ascending(_)
Ascending(S) ==
    IF S = {} THEN <<>>
    ELSE LET m == CHOOSE x \in S : \A y \in S : x <= y
         IN <<m>> \o Ascending(S \ {m})

GetSale(d, sale_id) == sale_id \in 1..Len(d.sales)

\* sale.items: the live SaleItem rows of the sale.
SaleItemIds(d, sale_id) ==
    {i \in 1..Len(d.sale_items) : d.sale_items[i].live /\ d.sale_items[i].sale_id = sale_id}

\* sale and sale.status == "aberta"
SaleAbertaQualquerStatus(d, sale_id) == GetSale(d, sale_id)

SaleAberta(d, sale_id) == GetSale(d, sale_id) /\ d.sales[sale_id].status = "aberta"

\* require_role were it to look at the role only.
require_role_so_papel(user, allowed) == user.role \in allowed \/ "*" \in allowed

require_role(user, allowed) ==
    /\ user.exists /\ ~user.deleted /\ user.ativo
    /\ user.role \in allowed \/ "*" \in allowed

\* abrir_venda were it to write no audit entry.
abrir_venda_sem_audit(d, store_id, user) ==
    IF ~require_role(user, {"admin", "gerente", "operador"}) THEN Fail(d)
    ELSE Ok([d EXCEPT !.sales = Append(@,
                 [store_id |-> store_id, status |-> "aberta", subtotal |-> 0,
                  desconto |-> 0, total |-> 0, pagamento |-> "none", troco |-> 0,
                  customer_id |-> NoId])])

abrir_venda(d, store_id, user) ==
    IF ~require_role(user, {"admin", "gerente", "operador"}) THEN Fail(d)
    ELSE LET sale == [store_id |-> store_id, status |-> "aberta", subtotal |-> 0,
                      desconto |-> 0, total |-> 0, pagamento |-> "none", troco |-> 0,
                      customer_id |-> NoId]
         IN Ok(audit_log([d EXCEPT !.sales = Append(@, sale)],
                         store_id, "Sale", NoId, "created"))

\* The promos the query of _preco_com_promos can return first: active, inside
\* their validity window at agora, of lowest prioridade (ties: any of them).
PromoMatches(d, store_id, agora) ==
    {i \in 1..Len(d.promos) :
        /\ d.promos[i].store_id = store_id
        /\ d.promos[i].ativa
        /\ d.promos[i].validade_ini <= agora
        /\ (d.promos[i].validade_fim = NoId \/ d.promos[i].validade_fim >= agora)}

\* The query of _preco_com_promos without its order_by: any matching promo.
PromoQualquer(d, store_id, agora) ==
    IF PromoMatches(d, store_id, agora) = {} THEN {NoId}
    ELSE PromoMatches(d, store_id, agora)

PromoFirst(d, store_id, agora) ==
    LET M == PromoMatches(d, store_id, agora)
    IN IF M = {} THEN {NoId}
       ELSE {i \in M : \A j \in M : d.promos[i].prioridade <= d.promos[j].prioridade}

\* promo: the row the query returned (NoId: none); qtd already quantized.
_preco_com_promos(d, product, qtd, promo) ==
    LET preco_unit == product.preco_venda
        none == [preco_unit |-> preco_unit, promo_id |-> NoId, desconto_total |-> 0]
    IN IF ~product.ativo THEN none
       ELSE IF promo # NoId /\ d.promos[promo].tipo = "desconto_percentual"
            THEN [preco_unit |-> preco_unit, promo_id |-> promo,
                  desconto_total |->
                      _as_money(preco_unit * qtd * d.promos[promo].value, QtdScale * 100)]
            ELSE none

\* CHECK constraints of sales and sale_items, raised by the flush.
CkSale(sale) == sale.subtotal >= 0 /\ sale.desconto >= 0 /\ sale.total >= 0 /\ sale.troco >= 0
CkSaleItem(si) == si.qtd > 0 /\ si.preco_unit >= 0 /\ si.desconto >= 0 /\ si.total >= 0

adicionar_item_venda(d, sale_id, product_id, qtd_raw, promo) ==
    IF ~SaleAberta(d, sale_id) THEN Fail(d)
    ELSE IF ~(GetProduct(d, product_id)
              /\ d.products[product_id].store_id = d.sales[sale_id].store_id
              /\ ~d.products[product_id].deleted) THEN Fail(d)
    ELSE LET qtd == _as_qtd(qtd_raw, RawScale) IN
    IF ~(qtd > 0) THEN Fail(d)
    ELSE LET sale == d.sales[sale_id]
             pr == _preco_com_promos(d, d.products[product_id], qtd, promo)
             total_sem_desc == _as_money(pr.preco_unit * qtd, QtdScale)
             total == total_sem_desc - pr.desconto_total
             si == [sale_id |-> sale_id, product_id |-> product_id, qtd |-> qtd,
                    preco_unit |-> pr.preco_unit, desconto |-> pr.desconto_total,
                    promo_id |-> pr.promo_id, total |-> total, live |-> TRUE]
             d1 == [d EXCEPT !.sale_items = Append(@, si),
                             !.sales[sale_id].subtotal = @ + total_sem_desc,
                             !.sales[sale_id].desconto = @ + pr.desconto_total,
                             !.sales[sale_id].total = @ + total]
         IN IF ~(CkSaleItem(si) /\ CkSale(d1.sales[sale_id])) THEN Fail(d1)
            ELSE Ok(audit_log(d1, sale.store_id, "Sale", sale_id, "item_added"))

\* remover_item_venda were it to hand the line's quantity back to the stock.
remover_item_venda_devolve(d, sale_item_id) ==
    IF ~(sale_item_id \in 1..Len(d.sale_items) /\ d.sale_items[sale_item_id].live)
    THEN Fail(d)
    ELSE LET si == d.sale_items[sale_item_id]
             sale_id == si.sale_id
         IN IF ~SaleAberta(d, sale_id) THEN Fail(d)
            ELSE LET sale == d.sales[sale_id]
                     d1 == [d EXCEPT
                              !.sales[sale_id].subtotal =
                                  _as_money(sale.subtotal * QtdScale - si.preco_unit * si.qtd,
                                            QtdScale),
                              !.sales[sale_id].desconto = sale.desconto - si.desconto,
                              !.sales[sale_id].total = sale.total - si.total,
                              !.sale_items[sale_item_id].live = FALSE,
                              !.stock_items[<<sale.store_id, si.product_id>>] = @ + si.qtd]
                 IN IF ~CkSale(d1.sales[sale_id]) THEN Fail(d1)
                    ELSE Ok(audit_log(d1, sale.store_id, "Sale", sale_id, "item_removed"))

\* remover_item_venda were it to leave the sale's desconto as it was.
remover_item_venda_sem_desconto(d, sale_item_id) ==
    IF ~(sale_item_id \in 1..Len(d.sale_items) /\ d.sale_items[sale_item_id].live)
    THEN Fail(d)
    ELSE LET si == d.sale_items[sale_item_id]
             sale_id == si.sale_id
         IN IF ~SaleAberta(d, sale_id) THEN Fail(d)
            ELSE LET sale == d.sales[sale_id]
                     d1 == [d EXCEPT
                              !.sales[sale_id].subtotal =
                                  _as_money(sale.subtotal * QtdScale - si.preco_unit * si.qtd,
                                            QtdScale),
                              !.sales[sale_id].total = sale.total - si.total,
                              !.sale_items[sale_item_id].live = FALSE]
                 IN IF ~CkSale(d1.sales[sale_id]) THEN Fail(d1)
                    ELSE Ok(audit_log(d1, sale.store_id, "Sale", sale_id, "item_removed"))

remover_item_venda(d, sale_item_id) ==
    IF ~(sale_item_id \in 1..Len(d.sale_items) /\ d.sale_items[sale_item_id].live)
    THEN Fail(d)
    ELSE LET si == d.sale_items[sale_item_id]
             sale_id == si.sale_id
         IN IF ~SaleAberta(d, sale_id) THEN Fail(d)
            ELSE LET sale == d.sales[sale_id]
                     d1 == [d EXCEPT
                              !.sales[sale_id].subtotal =
                                  _as_money(sale.subtotal * QtdScale - si.preco_unit * si.qtd,
                                            QtdScale),
                              !.sales[sale_id].desconto = sale.desconto - si.desconto,
                              !.sales[sale_id].total = sale.total - si.total,
                              !.sale_items[sale_item_id].live = FALSE]
                 IN IF ~CkSale(d1.sales[sale_id]) THEN Fail(d1)
                    ELSE Ok(audit_log(d1, sale.store_id, "Sale", sale_id, "item_removed"))

Pagamentos == {"dinheiro", "cartao", "pix", "misto"}

SaleMovesPrimeiraLinha(d, sale_id, tipo, ids) ==
    IF ids = <<>> THEN <<>>
    ELSE <<StockMove(d.sales[sale_id].store_id, d.sale_items[Head(ids)].product_id, tipo,
                     d.sale_items[Head(ids)].qtd, 0, "sale", sale_id)>>

RECURSIVE SaleMoves(_, _, _, _)
SaleMoves(d, sale_id, tipo, ids) ==
    IF ids = <<>> THEN <<>>
    ELSE LET it == d.sale_items[Head(ids)]
         IN <<StockMove(d.sales[sale_id].store_id, it.product_id, tipo, it.qtd, 0,
                        "sale", sale_id)>>
            \o SaleMoves(d, sale_id, tipo, Tail(ids))

pagar_venda(d, sale_id, pagamento, valor_pago_raw, customer_id) ==
    IF ~SaleAberta(d, sale_id) THEN Fail(d)
    ELSE IF ~(SaleItemIds(d, sale_id) # {}) THEN Fail(d)
    ELSE IF pagamento \notin Pagamentos THEN Fail(d)
    ELSE LET sale == d.sales[sale_id]
             d1 == [d EXCEPT
                      !.sales[sale_id].pagamento = pagamento,
                      !.sales[sale_id].troco =
                          Max(_as_money(valor_pago_raw, RawScale) - sale.total, 0),
                      !.sales[sale_id].status = "concluida"]
             custOk == \/ customer_id = NoId
                       \/ /\ customer_id \in 1..Len(d.customers)   \* else the FK fails
                          /\ d.customers[customer_id].store_id = sale.store_id
             d2 == IF customer_id = NoId THEN d1
                   ELSE [d1 EXCEPT !.sales[sale_id].customer_id = customer_id]
         IN IF ~custOk THEN Fail(d1)
            ELSE LET r == InsertStockMoves(d2, SaleMoves(d2, sale_id, "saida_venda",
                                               Ascending(SaleItemIds(d2, sale_id))))
                 IN IF r.ok THEN Ok(audit_log(r.db, sale.store_id, "Sale", sale_id, "paid"))
                            ELSE r

\* len(sale.items) > 0, then sale.total > 0 and sale.status == "cancelada", the
\* status read after it was set: sale is the row before the call, d1 after it.
DeveDevolverSeConcluida(sale, d1, sale_id) ==
    /\ SaleItemIds(d1, sale_id) # {}
    /\ sale.total > 0 /\ sale.status = "concluida"

DeveDevolver(sale, d1, sale_id) ==
    /\ SaleItemIds(d1, sale_id) # {}
    /\ sale.total > 0 /\ d1.sales[sale_id].status = "cancelada"

cancelar_venda(d, sale_id) ==
    IF ~(GetSale(d, sale_id) /\ d.sales[sale_id].status \in {"aberta", "concluida"})
    THEN Fail(d)
    ELSE LET sale == d.sales[sale_id]
             d1 == [d EXCEPT !.sales[sale_id].status = "cancelada"]
             mvs == IF DeveDevolver(sale, d1, sale_id)
                    THEN SaleMoves(d1, sale_id, "devolucao",
                                   Ascending(SaleItemIds(d1, sale_id)))
                    ELSE <<>>
             r == InsertStockMoves(d1, mvs)
         IN IF r.ok THEN Ok(audit_log(r.db, sale.store_id, "Sale", sale_id, "canceled"))
                    ELSE r

-----------------------------------------------------------------------------
(* Purchasing *)

GetPurchase(d, compra_id) == compra_id \in 1..Len(d.purchases)

PurchaseItemIds(d, compra_id) ==
    {i \in 1..Len(d.purchase_items) : d.purchase_items[i].purchase_id = compra_id}

CkPurchaseItem(pci) == pci.qtd > 0 /\ pci.custo >= 0 /\ pci.desconto >= 0 /\ pci.total >= 0

\* The loop of criar_pedido_compra were it to skip an item it cannot accept.
RECURSIVE PedidoItensIgnoraInvalido(_, _, _, _)
PedidoItensIgnoraInvalido(d, store_id, id, itens) ==
    IF itens = <<>> THEN Ok(d)
    ELSE LET dto == Head(itens)
             qtd == _as_qtd(dto.qtd, RawScale)
             custo == _as_money(dto.custo, RawScale)
             desc == _as_money(dto.desconto, RawScale)
             total_item == _as_money(qtd * custo - desc * QtdScale, QtdScale)
             pci == [purchase_id |-> id, product_id |-> dto.product_id, qtd |-> qtd,
                     custo |-> custo, desconto |-> desc, total |-> total_item]
         IN IF /\ CkPurchaseItem(pci)
               /\ GetProduct(d, dto.product_id)
               /\ d.products[dto.product_id].store_id = store_id
               /\ ~d.products[dto.product_id].deleted
            THEN PedidoItensIgnoraInvalido(
                     [d EXCEPT !.purchase_items = Append(@, pci),
                               !.purchases[id].total_previsto = @ + total_item],
                     store_id, id, Tail(itens))
            ELSE PedidoItensIgnoraInvalido(d, store_id, id, Tail(itens))

\* The loop over the item DTOs of criar_pedido_compra; r.db.purchases[id]
\* accumulates the running total.
RECURSIVE PedidoItens(_, _, _, _)
PedidoItens(d, store_id, id, itens) ==
    IF itens = <<>> THEN Ok(d)
    ELSE LET dto == Head(itens)
             qtd == _as_qtd(dto.qtd, RawScale)
             custo == _as_money(dto.custo, RawScale)
             desc == _as_money(dto.desconto, RawScale)
         IN IF ~(qtd > 0) THEN Fail(d)
            ELSE IF ~(custo >= 0) THEN Fail(d)
            ELSE IF ~(GetProduct(d, dto.product_id)
                      /\ d.products[dto.product_id].store_id = store_id
                      /\ ~d.products[dto.product_id].deleted) THEN Fail(d)
            ELSE LET total_item == _as_money(qtd * custo - desc * QtdScale, QtdScale)
                     pci == [purchase_id |-> id, product_id |-> dto.product_id, qtd |-> qtd,
                             custo |-> custo, desconto |-> desc, total |-> total_item]
                     d1 == [d EXCEPT !.purchase_items = Append(@, pci),
                                     !.purchases[id].total_previsto = @ + total_item]
                 IN IF ~CkPurchaseItem(pci) THEN Fail(d1)
                    ELSE PedidoItens(d1, store_id, id, Tail(itens))

criar_pedido_compra(d, store_id, supplier_id, itens) ==
    IF ~(Len(itens) > 0) THEN Fail(d)
    ELSE IF ~(supplier_id \in 1..Len(d.suppliers)
              /\ d.suppliers[supplier_id].store_id = store_id
              /\ d.suppliers[supplier_id].ativo) THEN Fail(d)
    ELSE LET id == Len(d.purchases) + 1
             compra == [store_id |-> store_id, supplier_id |-> supplier_id,
                        status |-> "rascunho", total_previsto |-> 0, total_recebido |-> 0]
             r == PedidoItens([d EXCEPT !.purchases = Append(@, compra)], store_id, id, itens)
         IN IF r.ok THEN Ok(audit_log(r.db, store_id, "Purchase", NoId, "created"))
                    ELSE r

\* enviar_compra were it to accept a purchase of any status.
enviar_compra_qualquer_status(d, compra_id) ==
    IF ~GetPurchase(d, compra_id) THEN Fail(d)
    ELSE Ok(audit_log([d EXCEPT !.purchases[compra_id].status = "emitida"],
                      d.purchases[compra_id].store_id, "Purchase", compra_id, "submitted"))

enviar_compra(d, compra_id) ==
    IF ~(GetPurchase(d, compra_id) /\ d.purchases[compra_id].status = "rascunho")
    THEN Fail(d)
    ELSE Ok(audit_log([d EXCEPT !.purchases[compra_id].status = "emitida"],
                      d.purchases[compra_id].store_id, "Purchase", compra_id, "submitted"))

\* itens_map = {i.product_id: i for i in ...}: per product, the last of the
\* purchase's items (a later row replaces an earlier one with the same key).
ItensMap(d, compra_id) ==
    LET ids == PurchaseItemIds(d, compra_id)
        prods == {d.purchase_items[i].product_id : i \in ids}
    IN [p \in prods |->
           CHOOSE i \in ids : /\ d.purchase_items[i].product_id = p
                              /\ \A j \in ids : d.purchase_items[j].product_id = p => j <= i]

RECURSIVE SumQtd(_, _)
SumQtd(rows, ids) ==
    IF ids = {} THEN 0
    ELSE LET i == CHOOSE x \in ids : TRUE IN rows[i].qtd + SumQtd(rows, ids \ {i})

NoCusto == -1   \* ItemRecebimentoDTO.custo is None

\* The loop over the received lines were it to ignore the cost override.
RECURSIVE RecebimentosSemOverride(_, _, _, _, _)
RecebimentosSemOverride(d, compra_id, itens_map, itens, acc) ==
    IF itens = <<>> THEN [ok |-> TRUE, mvs |-> acc.mvs, total |-> acc.total]
    ELSE LET rec == Head(itens)
             qtd == _as_qtd(rec.qtd, RawScale)
         IN IF rec.product_id \notin DOMAIN itens_map \/ ~(qtd > 0)
            THEN [ok |-> FALSE, mvs |-> acc.mvs, total |-> acc.total]
            ELSE LET custo_base == d.purchase_items[itens_map[rec.product_id]].custo
                     sm == StockMove(d.purchases[compra_id].store_id, rec.product_id,
                                     "entrada_compra", qtd, custo_base, "purchase", compra_id)
                 IN RecebimentosSemOverride(d, compra_id, itens_map, Tail(itens),
                        [mvs |-> Append(acc.mvs, sm),
                         total |-> acc.total + _as_money(qtd * custo_base, QtdScale)])

\* The loop over the received lines: r.mvs the StockMoves added to the session,
\* r.total the running total_receb.
RECURSIVE Recebimentos(_, _, _, _, _)
Recebimentos(d, compra_id, itens_map, itens, acc) ==
    IF itens = <<>> THEN [ok |-> TRUE, mvs |-> acc.mvs, total |-> acc.total]
    ELSE LET rec == Head(itens)
             qtd == _as_qtd(rec.qtd, RawScale)
         IN IF rec.product_id \notin DOMAIN itens_map
            THEN [ok |-> FALSE, mvs |-> acc.mvs, total |-> acc.total]
            ELSE IF ~(qtd > 0) THEN [ok |-> FALSE, mvs |-> acc.mvs, total |-> acc.total]
            ELSE LET custo_base == d.purchase_items[itens_map[rec.product_id]].custo
                     custo_rec == IF rec.custo # NoCusto THEN _as_money(rec.custo, RawScale)
                                                         ELSE custo_base
                     sm == StockMove(d.purchases[compra_id].store_id, rec.product_id,
                                     "entrada_compra", qtd, custo_rec, "purchase", compra_id)
                 IN Recebimentos(d, compra_id, itens_map, Tail(itens),
                                 [mvs |-> Append(acc.mvs, sm),
                                  total |-> acc.total + _as_money(qtd * custo_rec, QtdScale)])

\* The entrada_compra moves of the purchase that the status query sees.
EntradasDaCompra(d, compra_id) ==
    {i \in 1..Len(d.stock_moves) :
        /\ d.stock_moves[i].store_id = d.purchases[compra_id].store_id
        /\ d.stock_moves[i].ref_origem = "purchase"
        /\ d.stock_moves[i].ref_id = compra_id
        /\ d.stock_moves[i].tipo = "entrada_compra"}

\* The status were a purchase not yet complete to fall back to a draft.
StatusRecebimentoRascunho(qtd_recebida, qtd_pedido) ==
    IF qtd_recebida < qtd_pedido THEN "rascunho" ELSE "recebida"

StatusRecebimento(qtd_recebida, qtd_pedido) ==
    IF qtd_recebida = 0 THEN "emitida"
    ELSE IF qtd_recebida < qtd_pedido THEN "parcialmente_recebida"
    ELSE "recebida"

\* compra and compra.status in ("emitida", "parcialmente_recebida")
PodeReceberRecebida(d, compra_id) ==
    /\ GetPurchase(d, compra_id)
    /\ d.purchases[compra_id].status \in {"emitida", "parcialmente_recebida", "recebida"}

PodeReceber(d, compra_id) ==
    /\ GetPurchase(d, compra_id)
    /\ d.purchases[compra_id].status \in {"emitida", "parcialmente_recebida"}

receber_compra(d, compra_id, itens) ==
    IF ~PodeReceber(d, compra_id)
    THEN Fail(d)
    ELSE LET compra == d.purchases[compra_id]
             itens_map == ItensMap(d, compra_id)
         IN IF ~(DOMAIN itens_map # {}) THEN Fail(d)
            ELSE LET rc == Recebimentos(d, compra_id, itens_map, itens,
                                        [mvs |-> <<>>, total |-> compra.total_recebido])
                 IN IF ~rc.ok THEN Fail(d)
                    ELSE LET r == InsertStockMoves(
                                      [d EXCEPT !.purchases[compra_id].total_recebido = rc.total],
                                      rc.mvs)
                         IN IF ~r.ok THEN r
                            ELSE LET qtd_pedido == SumQtd(d.purchase_items,
                                                          {itens_map[p] : p \in DOMAIN itens_map})
                                     qtd_recebida == SumQtd(r.db.stock_moves,
                                                            EntradasDaCompra(r.db, compra_id))
                                     status == StatusRecebimento(qtd_recebida, qtd_pedido)
                                     d1 == [r.db EXCEPT !.purchases[compra_id].status = status]
                                     valor == IF compra.total_previsto > 0
                                              THEN compra.total_previsto ELSE rc.total
                                     d2 == IF status = "recebida" /\ valor > 0
                                           THEN [d1 EXCEPT !.payables = Append(@,
                                                    [store_id |-> compra.store_id,
                                                     origem |-> "purchase", ref_id |-> compra_id,
                                                     fornecedor_id |-> compra.supplier_id,
                                                     valor |-> valor, status |-> "aberto"])]
                                           ELSE d1
                                 IN IF d2.purchases[compra_id].total_recebido < 0 THEN Fail(d2)
                                    ELSE Ok(audit_log(d2, compra.store_id, "Purchase",
                                                      compra_id, "received"))

-----------------------------------------------------------------------------
(* Inventory *)

GetSession(d, session_id) == session_id \in 1..Len(d.inventory_sessions)

CountIds(d, session_id) ==
    {i \in 1..Len(d.inventory_counts) : d.inventory_counts[i].session_id = session_id}

\* sess and sess.store_id == store_id and sess.aberta
SessaoValidaSemAberta(d, store_id, session_id) ==
    /\ GetSession(d, session_id)
    /\ d.inventory_sessions[session_id].store_id = store_id

SessaoValida(d, store_id, session_id) ==
    /\ GetSession(d, session_id)
    /\ d.inventory_sessions[session_id].store_id = store_id
    /\ d.inventory_sessions[session_id].aberta

criar_sessao_inventario(d, store_id, nome_ok) ==
    IF ~nome_ok THEN Fail(d)
    ELSE Ok(audit_log([d EXCEPT !.inventory_sessions =
                                    Append(@, [store_id |-> store_id, aberta |-> TRUE])],
                      store_id, "InventorySession", NoId, "created"))

\* registrar_contagem were it to add a row at every call.
registrar_contagem_sempre_insere(d, store_id, session_id, product_id, qtd_contada_raw) ==
    IF ~SessaoValida(d, store_id, session_id) THEN Fail(d)
    ELSE IF ~(GetProduct(d, product_id) /\ d.products[product_id].store_id = store_id)
    THEN Fail(d)
    ELSE LET key == <<store_id, product_id>>
             qtd_atual == IF key \in DOMAIN d.stock_items THEN d.stock_items[key] ELSE 0
             qtd_contada == _as_qtd(qtd_contada_raw, RawScale)
         IN IF ~(qtd_contada >= 0) THEN Fail(d)
            ELSE Ok(audit_log([d EXCEPT !.inventory_counts = Append(@,
                                   [session_id |-> session_id, product_id |-> product_id,
                                    qtd_contada |-> qtd_contada, qtd_atual |-> qtd_atual,
                                    conciliado |-> FALSE])],
                              store_id, "InventoryCount", NoId, "created"))

\* registrar_contagem were it to accept a session that is already closed.
registrar_contagem_sessao_fechada(d, store_id, session_id, product_id, qtd_contada_raw) ==
    IF ~SessaoValidaSemAberta(d, store_id, session_id) THEN Fail(d)
    ELSE IF ~(GetProduct(d, product_id) /\ d.products[product_id].store_id = store_id)
    THEN Fail(d)
    ELSE LET key == <<store_id, product_id>>
             qtd_atual == IF key \in DOMAIN d.stock_items THEN d.stock_items[key] ELSE 0
             qtd_contada == _as_qtd(qtd_contada_raw, RawScale)
             found == {i \in CountIds(d, session_id) :
                          d.inventory_counts[i].product_id = product_id}
         IN IF ~(qtd_contada >= 0) THEN Fail(d)   \* ck_inventory_counts_contada
            ELSE IF found # {}
            THEN LET i == CHOOSE x \in found : \A y \in found : x <= y
                 IN Ok(audit_log([d EXCEPT !.inventory_counts[i].qtd_contada = qtd_contada,
                                           !.inventory_counts[i].qtd_atual = qtd_atual,
                                           !.inventory_counts[i].conciliado = FALSE],
                                 store_id, "InventoryCount", i, "updated"))
            ELSE Ok(audit_log([d EXCEPT !.inventory_counts = Append(@,
                                   [session_id |-> session_id, product_id |-> product_id,
                                    qtd_contada |-> qtd_contada, qtd_atual |-> qtd_atual,
                                    conciliado |-> FALSE])],
                              store_id, "InventoryCount", NoId, "created"))

registrar_contagem(d, store_id, session_id, product_id, qtd_contada_raw) ==
    IF ~SessaoValida(d, store_id, session_id) THEN Fail(d)
    ELSE IF ~(GetProduct(d, product_id) /\ d.products[product_id].store_id = store_id)
    THEN Fail(d)
    ELSE LET key == <<store_id, product_id>>
             qtd_atual == IF key \in DOMAIN d.stock_items THEN d.stock_items[key] ELSE 0
             qtd_contada == _as_qtd(qtd_contada_raw, RawScale)
             found == {i \in CountIds(d, session_id) :
                          d.inventory_counts[i].product_id = product_id}
         IN IF ~(qtd_contada >= 0) THEN Fail(d)   \* ck_inventory_counts_contada
            ELSE IF found # {}
            THEN LET i == CHOOSE x \in found : \A y \in found : x <= y
                 IN Ok(audit_log([d EXCEPT !.inventory_counts[i].qtd_contada = qtd_contada,
                                           !.inventory_counts[i].qtd_atual = qtd_atual,
                                           !.inventory_counts[i].conciliado = FALSE],
                                 store_id, "InventoryCount", i, "updated"))
            ELSE Ok(audit_log([d EXCEPT !.inventory_counts = Append(@,
                                   [session_id |-> session_id, product_id |-> product_id,
                                    qtd_contada |-> qtd_contada, qtd_atual |-> qtd_atual,
                                    conciliado |-> FALSE])],
                              store_id, "InventoryCount", NoId, "created"))

Abs(x) == IF x < 0 THEN -x ELSE x

\* The loop over the counts were it to leave the rows it adjusts unmarked.
RECURSIVE ConciliarSemMarcar(_, _, _, _, _)
ConciliarSemMarcar(d, store_id, session_id, ids, mvs) ==
    IF ids = <<>> THEN [db |-> d, mvs |-> mvs]
    ELSE LET i == Head(ids)
             ic == d.inventory_counts[i]
             dif == ic.qtd_contada - ic.qtd_atual
         IN IF ic.conciliado THEN ConciliarSemMarcar(d, store_id, session_id, Tail(ids), mvs)
            ELSE IF dif = 0
            THEN ConciliarSemMarcar([d EXCEPT !.inventory_counts[i].conciliado = TRUE],
                                    store_id, session_id, Tail(ids), mvs)
            ELSE ConciliarSemMarcar(d, store_id, session_id, Tail(ids),
                     Append(mvs, StockMove(store_id, ic.product_id,
                                           IF dif > 0 THEN "entrada_ajuste" ELSE "saida_ajuste",
                                           Abs(dif), 0, "inventory", session_id)))

\* The loop over the counts were it to adjust against the quantity on hand now.
RECURSIVE ConciliarContraEstoque(_, _, _, _, _)
ConciliarContraEstoque(d, store_id, session_id, ids, mvs) ==
    IF ids = <<>> THEN [db |-> d, mvs |-> mvs]
    ELSE LET i == Head(ids)
             ic == d.inventory_counts[i]
             dif == ic.qtd_contada - d.stock_items[<<store_id, ic.product_id>>]
             marked == [d EXCEPT !.inventory_counts[i].conciliado = TRUE]
         IN IF ic.conciliado
            THEN ConciliarContraEstoque(d, store_id, session_id, Tail(ids), mvs)
            ELSE IF dif = 0
            THEN ConciliarContraEstoque(marked, store_id, session_id, Tail(ids), mvs)
            ELSE ConciliarContraEstoque(marked, store_id, session_id, Tail(ids),
                     Append(mvs, StockMove(store_id, ic.product_id,
                                           IF dif > 0 THEN "entrada_ajuste"
                                                      ELSE "saida_ajuste",
                                           Abs(dif), 0, "inventory", session_id)))

\* The loop over the counts of conciliar_inventario: marks each processed row
\* and collects the adjustment moves added to the session.
RECURSIVE Conciliar(_, _, _, _, _)
Conciliar(d, store_id, session_id, ids, mvs) ==
    IF ids = <<>> THEN [db |-> d, mvs |-> mvs]
    ELSE LET i == Head(ids)
             ic == d.inventory_counts[i]
             dif == ic.qtd_contada - ic.qtd_atual
             marked == [d EXCEPT !.inventory_counts[i].conciliado = TRUE]
         IN IF ic.conciliado THEN Conciliar(d, store_id, session_id, Tail(ids), mvs)
            ELSE IF dif = 0 THEN Conciliar(marked, store_id, session_id, Tail(ids), mvs)
            ELSE Conciliar(marked, store_id, session_id, Tail(ids),
                           Append(mvs, StockMove(store_id, ic.product_id,
                                                 IF dif > 0 THEN "entrada_ajuste"
                                                            ELSE "saida_ajuste",
                                                 Abs(dif), 0, "inventory", session_id)))

conciliar_inventario(d, store_id, session_id) ==
    IF ~SessaoValida(d, store_id, session_id) THEN Fail(d)
    ELSE IF ~(CountIds(d, session_id) # {}) THEN Fail(d)
    ELSE LET c == Conciliar(d, store_id, session_id, Ascending(CountIds(d, session_id)), <<>>)
             d1 == [c.db EXCEPT !.inventory_sessions[session_id].aberta = FALSE]
             r == InsertStockMoves(d1, c.mvs)
             entradas == Cardinality({j \in 1..Len(c.mvs) : c.mvs[j].tipo = "entrada_ajuste"})
             saidas == Cardinality({j \in 1..Len(c.mvs) : c.mvs[j].tipo = "saida_ajuste"})
         IN IF r.ok THEN [ok |-> TRUE,
                          db |-> audit_log(r.db, store_id, "InventorySession", session_id,
                                           "reconciled"),
                          ret |-> <<entradas, saidas>>]
                    ELSE r

-----------------------------------------------------------------------------
(* Requests: one service call inside one transaction() block *)

\* A request is issued while the audit log is short of the given length.
Lim(ops) == Len(db.audit_logs) < ops

Request(op, k, res) ==
    /\ db' = transaction(res, db)
    /\ prev' = db
    /\ last' = [op |-> op, ok |-> res.ok, k |-> k]
    /\ UNCHANGED <<txn, lock>>

CriarProduto(S, E, C, P) ==
    \E s \in S, ean \in E, c \in C, p \in P :
        Request("criar_produto", [store_id |-> s, ean |-> ean],
                criar_produto(db, s, ean, c, p))

AjusteEstoque(S, Q, T) ==
    \E s \in S, p \in 1..Len(db.products), q \in Q, t \in T :
        Request("ajuste_estoque",
                [store_id |-> s, product_id |-> p, qtd |-> _as_qtd(q, RawScale), tipo |-> t],
                ajuste_estoque(db, s, p, q, t))

AbrirVenda(S, U) ==
    \E s \in S, u \in U :
        Request("abrir_venda", [store_id |-> s, user |-> u], abrir_venda(db, s, u))

AtualizarProduto(P, D) ==
    \E p \in P, dados \in D :
        Request("atualizar_produto", [product_id |-> p, dados |-> dados],
                atualizar_produto(db, p, dados))

PublicarPreco(S, P, V) ==
    \E s \in S, p \in P, v \in V :
        Request("publicar_preco",
                [store_id |-> s, product_id |-> p, preco |-> _as_money(v, RawScale)],
                publicar_preco(db, s, p, v))

\* The edit view, by a logged-in user of store s with role r.
EditarProduto(R, S, F) ==
    \E r \in R, s \in S, pid \in 1..Len(db.products), form \in F :
        Request("edit", [store_id |-> s, product_id |-> pid, form |-> form],
                edit(db, r, s, pid, form))

\* adicionar_item_venda with the product id drawn from P (ids of no row included).
AdicionarItem(P, Q, A) ==
    \E sale_id \in 1..Len(db.sales), p \in P, q \in Q, agora \in A :
        \E promo \in PromoFirst(db, db.sales[sale_id].store_id, agora) :
            Request("adicionar_item_venda",
                       [sale_id |-> sale_id, product_id |-> p, qtd |-> _as_qtd(q, RawScale),
                        promo |-> promo, agora |-> agora],
                       adicionar_item_venda(db, sale_id, p, q, promo))

AdicionarItemVenda(Q, A) == AdicionarItem(1..Len(db.products), Q, A)

\* undoes: the request removes the line that the request just before it added;
\* before: the sale as it was before that line was added.
RemoverItemVenda ==
    \E i \in 1..Len(db.sale_items) :
        LET undoes == /\ last.op = "adicionar_item_venda" /\ last.ok
                      /\ i = Len(db.sale_items)
        IN Request("remover_item_venda",
                   [sale_item_id |-> i, sale_id |-> db.sale_items[i].sale_id,
                    undoes |-> undoes,
                    before |-> IF undoes THEN prev.sales[db.sale_items[i].sale_id]
                                         ELSE db.sales[db.sale_items[i].sale_id]],
                   remover_item_venda(db, i))

PagarVenda(PG, V, CU) ==
    \E sale_id \in 1..Len(db.sales), pg \in PG, v \in V, cu \in CU :
        Request("pagar_venda",
                [sale_id |-> sale_id, pagamento |-> pg, valor_pago |-> _as_money(v, RawScale),
                 customer_id |-> cu],
                pagar_venda(db, sale_id, pg, v, cu))

CancelarVenda ==
    \E sale_id \in 1..Len(db.sales) :
        LET desfaz == /\ last.op = "pagar_venda" /\ last.ok
                      /\ last.k.sale_id = sale_id
        IN Request("cancelar_venda",
                   [sale_id |-> sale_id, desfaz |-> desfaz,
                    antes |-> IF desfaz THEN prev.stock_items ELSE db.stock_items],
                   cancelar_venda(db, sale_id))

CriarPedidoCompra(S, SU, I) ==
    \E s \in S, su \in SU, itens \in I :
        Request("criar_pedido_compra", [store_id |-> s, supplier_id |-> su, itens |-> itens],
                   criar_pedido_compra(db, s, su, itens))

\* with transaction(): ajuste_estoque(...); criar_pedido_compra(...)
\* The second call runs on what the first left in the session; a raise of
\* either leaves the block.
BlocoAjusteEPedido(S, Q, SU, I) ==
    \E s \in S, p \in 1..Len(db.products), q \in Q, su \in SU, itens \in I :
        LET r1 == ajuste_estoque(db, s, p, q, "entrada_ajuste")
            r2 == IF r1.ok THEN criar_pedido_compra(r1.db, s, su, itens) ELSE r1
        IN Request("bloco", [store_id |-> s, itens |-> itens, primeiro_ok |-> r1.ok], r2)

EnviarCompra ==
    \E c \in 1..Len(db.purchases) :
        Request("enviar_compra", [compra_id |-> c], enviar_compra(db, c))

ReceberCompra(I) ==
    \E c \in 1..Len(db.purchases), itens \in I :
        Request("receber_compra", [compra_id |-> c, itens |-> itens],
                receber_compra(db, c, itens))

CriarSessaoInventario(S) ==
    \E s \in S :
        Request("criar_sessao_inventario", [store_id |-> s],
                   criar_sessao_inventario(db, s, TRUE))

RegistrarContagem(S, Q) ==
    \E s \in S, se \in 1..Len(db.inventory_sessions), p \in 1..Len(db.products), q \in Q :
        Request("registrar_contagem",
                [store_id |-> s, session_id |-> se, product_id |-> p,
                 qtd_contada |-> _as_qtd(q, RawScale)],
                registrar_contagem(db, s, se, p, q))

ConciliarInventario(S) ==
    \E s \in S, se \in 1..Len(db.inventory_sessions) :
        LET r == conciliar_inventario(db, s, se)
        IN Request("conciliar_inventario",
                   [store_id |-> s, session_id |-> se,
                    ret |-> IF r.ok THEN r.ret ELSE <<0, 0>>],
                   r)

-----------------------------------------------------------------------------
(* The store's stock: every operation that moves stock, one store *)

User(role, ativo, deleted) ==
    [exists |-> TRUE, role |-> role, ativo |-> ativo, deleted |-> deleted]

Operador == User("operador", TRUE, FALSE)

Supplier(store_id, ativo) == [store_id |-> store_id, ativo |-> ativo, deleted |-> FALSE]

EmptyDb ==
    [products |-> <<>>, stock_items |-> <<>>, stock_moves |-> <<>>, audit_logs |-> <<>>,
     sales |-> <<>>, sale_items |-> <<>>, promos |-> <<>>, customers |-> <<>>,
     suppliers |-> <<>>, purchases |-> <<>>, purchase_items |-> <<>>, payables |-> <<>>,
     inventory_sessions |-> <<>>, inventory_counts |-> <<>>, price_versions |-> <<>>,
     reservado |-> <<>>]

InitDb(d) ==
    /\ db = d
    /\ prev = d
    /\ last = [op |-> "init", ok |-> TRUE, k |-> [store_id |-> NoId]]
    /\ txn = <<>>
    /\ lock = <<>>

Um == QtdScale * RawScale   \* the raw input 1.0000

Item(p, q, c) == [product_id |-> p, qtd |-> q, custo |-> c, desconto |-> 0]
Rec(p, q) == [product_id |-> p, qtd |-> q, custo |-> NoCusto]
RecCusto(p, q, c) == [product_id |-> p, qtd |-> q, custo |-> c]

Promo(store_id, prioridade, tipo, value) ==
    [store_id |-> store_id, ativa |-> TRUE, deleted |-> FALSE, validade_ini |-> 1,
     validade_fim |-> NoId, prioridade |-> prioridade, tipo |-> tipo, value |-> value]

Init == InitDb([EmptyDb EXCEPT !.suppliers = <<Supplier(1, TRUE)>>])

Next ==
    \/ Lim(MaxOps) /\ CriarProduto({1}, {NoEan}, {5000}, {10000})
    \/ Lim(MaxOps) /\ AjusteEstoque({1}, {Um}, {"entrada_ajuste", "saida_ajuste"})
    \/ Lim(MaxOps) /\ AbrirVenda({1}, {Operador})
    \/ Lim(MaxOps) /\ AdicionarItemVenda({Um}, {1})
    \/ Lim(MaxOps) /\ RemoverItemVenda
    \/ Lim(MaxOps) /\ PagarVenda({"dinheiro"}, {1000000}, {NoId})
    \/ Lim(MaxOps) /\ CancelarVenda
    \/ Lim(MaxOps) /\ CriarPedidoCompra({1}, {1}, {<<Item(1, 2 * Um, 7000)>>})
    \/ Lim(MaxOps) /\ EnviarCompra
    \/ Lim(MaxOps) /\ ReceberCompra({<<Rec(1, Um)>>})
    \/ Lim(MaxOps) /\ CriarSessaoInventario({1})
    \/ Lim(MaxOps) /\ RegistrarContagem({1}, {0, Um})
    \/ Lim(MaxOps) /\ ConciliarInventario({1})

Spec == Init /\ [][Next]_vars

-----------------------------------------------------------------------------
(* Properties of the stock *)

StockKey(d, product_id) == <<d.products[product_id].store_id, product_id>>

\* The last request was an ajuste_estoque that passed validation and asked to
\* take out more than the quantity on hand.
AjusteExcede ==
    /\ last.op = "ajuste_estoque" /\ last.k.tipo = "saida_ajuste"
    /\ GetProduct(prev, last.k.product_id)
    /\ prev.products[last.k.product_id].store_id = last.k.store_id
    /\ last.k.qtd > prev.stock_items[<<last.k.store_id, last.k.product_id>>]

\* The last request was a pagar_venda of a sale one of whose lines asks for
\* more than the quantity on hand.
PagarExcede ==
    /\ last.op = "pagar_venda"
    /\ \E i \in SaleItemIds(prev, last.k.sale_id) :
           prev.sale_items[i].qtd > prev.stock_items[StockKey(prev, prev.sale_items[i].product_id)]

Signed(mv) ==
    IF mv.tipo \in {"entrada_compra", "entrada_ajuste", "devolucao"} THEN mv.qtd
    ELSE IF mv.tipo \in {"saida_venda", "saida_ajuste"} THEN -mv.qtd
    ELSE 0

\* The ledger replayed from an empty stock for one (store, product).
RECURSIVE Replay(_, _)
Replay(moves, key) ==
    IF moves = <<>> THEN 0
    ELSE Replay(Tail(moves), key)
         + (IF <<Head(moves).store_id, Head(moves).product_id>> = key
            THEN Signed(Head(moves)) ELSE 0)

\* C2: in every committed state, for every (store, product), the
\* StockItem.quantidade equals the sum of the signed quantities of the
\* persisted StockMove rows of that product, replayed from 0.
C2_ViewConsistency ==
    \A key \in DOMAIN db.stock_items : db.stock_items[key] = Replay(db.stock_moves, key)

\* A ledger holding an adjustment in, a sale and its return.
C2_Witness ==
    /\ \E i \in 1..Len(db.stock_moves) : db.stock_moves[i].tipo = "entrada_ajuste"
    /\ \E i \in 1..Len(db.stock_moves) : db.stock_moves[i].tipo = "saida_venda"
    /\ \E i \in 1..Len(db.stock_moves) : db.stock_moves[i].tipo = "devolucao"

-----------------------------------------------------------------------------
(* The point of sale of one store *)

MaxOpsVenda == 6       \* SpecVenda: requests stop once the audit log has this many rows

NextVenda ==
    \/ Lim(MaxOpsVenda) /\ CriarProduto({1}, {NoEan}, {5000}, {10000})
    \/ Lim(MaxOpsVenda) /\ AjusteEstoque({1}, {Um, 2 * Um}, {"entrada_ajuste", "saida_ajuste"})
    \/ Lim(MaxOpsVenda) /\ AbrirVenda({1}, {Operador})
    \/ Lim(MaxOpsVenda) /\ AdicionarItemVenda({Um, 2 * Um}, {1})
    \/ Lim(MaxOpsVenda) /\ RemoverItemVenda
    \/ Lim(MaxOpsVenda) /\ PagarVenda({"dinheiro", "cheque"}, {0, 20000}, {NoId})
    \/ Lim(MaxOpsVenda) /\ CancelarVenda

SpecVenda == Init /\ [][NextVenda]_vars

\* The quantity the lines of a sale ask of one StockItem.
RECURSIVE Demand(_, _, _)
Demand(d, ids, key) ==
    IF ids = {} THEN 0
    ELSE LET i == CHOOSE x \in ids : TRUE
         IN Demand(d, ids \ {i}, key)
            + (IF StockKey(d, d.sale_items[i].product_id) = key
               THEN d.sale_items[i].qtd ELSE 0)

\* The last request was a pagar_venda that passed validation, on a sale whose
\* lines ask for more of some product than is on hand.
PagarSemEstoque ==
    /\ last.op = "pagar_venda"
    /\ SaleAberta(prev, last.k.sale_id)
    /\ last.k.pagamento \in Pagamentos
    /\ \E key \in DOMAIN prev.stock_items :
           Demand(prev, SaleItemIds(prev, last.k.sale_id), key) > prev.stock_items[key]

\* C3: when pagar_venda runs inside transaction() and a line's saida_venda would
\* drive stock negative, the call fails and the committed state is unchanged: no
\* StockMove of the sale persists, no StockItem changes, the sale stays aberta
\* with pagamento and troco unset, and no audit entry is written; the same holds
\* for ajuste_estoque with tipo saida_ajuste.
C3_FalhaAtomica ==
    (PagarSemEstoque \/ AjusteExcede) =>
        /\ ~last.ok
        /\ db.stock_moves = prev.stock_moves
        /\ db.stock_items = prev.stock_items
        /\ db.sales = prev.sales
        /\ db.audit_logs = prev.audit_logs

\* A pagar_venda just failed on a sale of two lines, the first of which had
\* enough stock.
C3_Witness ==
    /\ PagarSemEstoque /\ ~last.ok
    /\ Cardinality(SaleItemIds(prev, last.k.sale_id)) >= 2
    /\ LET first == CHOOSE i \in SaleItemIds(prev, last.k.sale_id) :
                        \A j \in SaleItemIds(prev, last.k.sale_id) : i <= j
       IN prev.sale_items[first].qtd
              <= prev.stock_items[StockKey(prev, prev.sale_items[first].product_id)]
    /\ db.sales[last.k.sale_id].status = "aberta"
    /\ db.sales[last.k.sale_id].pagamento = "none"

SaleTransitions ==
    {<<"aberta", "concluida">>, <<"aberta", "cancelada">>, <<"concluida", "cancelada">>}

\* The last request was an adicionar_item_venda, remover_item_venda or
\* pagar_venda aimed at an existing sale that was not aberta.
SobreVendaFechada ==
    /\ last.op \in {"adicionar_item_venda", "remover_item_venda", "pagar_venda"}
    /\ GetSale(prev, last.k.sale_id)
    /\ prev.sales[last.k.sale_id].status # "aberta"

\* C10: a sale's status only moves aberta -> concluida, aberta -> cancelada or
\* concluida -> cancelada (so it never returns to aberta and cancelada is
\* absorbing), and adicionar_item_venda, remover_item_venda and pagar_venda fail
\* on a sale that is not aberta, leaving its lines and aggregates unchanged.
C10_SaleStateMachine ==
    /\ \A s \in 1..Len(prev.sales) :
           \/ db.sales[s].status = prev.sales[s].status
           \/ <<prev.sales[s].status, db.sales[s].status>> \in SaleTransitions
    /\ SobreVendaFechada =>
           /\ ~last.ok
           /\ db.sales = prev.sales
           /\ db.sale_items = prev.sale_items

\* An adicionar_item_venda was just refused on a sale that pagar_venda had
\* concluded.
C10_Witness ==
    /\ SobreVendaFechada /\ ~last.ok
    /\ last.op = "adicionar_item_venda"
    /\ db.sales[last.k.sale_id].status = "concluida"
    /\ \E i \in 1..Len(db.stock_moves) :
           db.stock_moves[i].tipo = "saida_venda" /\ db.stock_moves[i].ref_id = last.k.sale_id

-----------------------------------------------------------------------------
(* Adding and removing sale lines, over prices and quantities that round *)

MaxOpsSimetria == 5    \* SpecSimetria: requests stop at this audit log length

InitSimetria ==
    \E promos \in {<<>>, <<Promo(1, 100, "desconto_percentual", 10)>>} :
        InitDb([EmptyDb EXCEPT !.promos = promos])

NextSimetria ==
    \/ Lim(MaxOpsSimetria) /\ CriarProduto({1}, {NoEan}, {0}, {10, 1250, 10000})
    \/ Lim(MaxOpsSimetria) /\ AbrirVenda({1}, {Operador})
    \/ Lim(MaxOpsSimetria) /\ AdicionarItemVenda({10000, 33335, 50000, Um}, {1})
    \/ Lim(MaxOpsSimetria) /\ RemoverItemVenda

SpecSimetria == InitSimetria /\ [][NextSimetria]_vars

\* C5: adicionar_item_venda followed by remover_item_venda of that same line
\* restores sale.subtotal, sale.desconto and sale.total exactly to their values
\* before the add, with or without an applicable percentage promo.
C5_Simetria ==
    (last.op = "remover_item_venda" /\ last.ok /\ last.k.undoes) =>
        /\ db.sales[last.k.sale_id].subtotal = last.k.before.subtotal
        /\ db.sales[last.k.sale_id].desconto = last.k.before.desconto
        /\ db.sales[last.k.sale_id].total = last.k.before.total

-----------------------------------------------------------------------------
(* Purchasing *)

MaxOpsCompra == 6      \* SpecCompra: requests stop at this audit log length

\* One product, created by criar_produto.
UmProduto == criar_produto([EmptyDb EXCEPT !.suppliers = <<Supplier(1, TRUE)>>],
                           1, NoEan, 5000, 10000).db

InitCompra == InitDb(UmProduto)

NextCompra ==
    \/ Lim(MaxOpsCompra) /\ CriarProduto({1}, {NoEan}, {5000}, {10000})
    \/ Lim(MaxOpsCompra)
       /\ CriarPedidoCompra({1}, {1}, {<<Item(1, 5 * Um, 7000), Item(2, 5 * Um, 7000)>>,
                                       <<Item(1, 5 * Um, 7000), Item(1, 5 * Um, 7000)>>,
                                       <<Item(1, 5 * Um, 0)>>})
    \/ Lim(MaxOpsCompra) /\ EnviarCompra
    \/ Lim(MaxOpsCompra)
       /\ ReceberCompra({<<>>, <<Rec(1, 0)>>, <<Rec(1, 5 * Um)>>, <<Rec(2, 5 * Um)>>,
                         <<Rec(1, 5 * Um), Rec(2, 5 * Um)>>, <<RecCusto(1, 5 * Um, 8000)>>})

SpecCompra == InitCompra /\ [][NextCompra]_vars

PayablesDaCompra(d, compra_id) ==
    {i \in 1..Len(d.payables) :
        d.payables[i].origem = "purchase" /\ d.payables[i].ref_id = compra_id}

\* R: the quantity of the entrada_compra moves that reference the purchase;
\* O: the quantity of all the items of the purchase.
Recebido(d, compra_id) ==
    SumQtd(d.stock_moves, {i \in 1..Len(d.stock_moves) :
                              /\ d.stock_moves[i].tipo = "entrada_compra"
                              /\ d.stock_moves[i].ref_origem = "purchase"
                              /\ d.stock_moves[i].ref_id = compra_id})

Pedido(d, compra_id) == SumQtd(d.purchase_items, PurchaseItemIds(d, compra_id))

\* C6: after every successful receber_compra the status is emitida if R = 0,
\* parcialmente_recebida if 0 < R < O and recebida if R >= O, R being the
\* received and O the ordered quantity of the purchase.
C6_StatusDerivado ==
    (last.op = "receber_compra" /\ last.ok) =>
        LET c == last.k.compra_id
            R == Recebido(db, c)
            O == Pedido(db, c)
        IN db.purchases[c].status =
               IF R = 0 THEN "emitida"
               ELSE IF R < O THEN "parcialmente_recebida" ELSE "recebida"

\* C7 as stated: exactly one Payable of the purchase exists once it is recebida,
\* with valor total_previsto, and none before.
C7_UmPayable ==
    \A c \in 1..Len(db.purchases) :
        LET P == PayablesDaCompra(db, c) IN
        IF db.purchases[c].status = "recebida"
        THEN /\ Cardinality(P) = 1
             /\ \A i \in P : db.payables[i].valor = db.purchases[c].total_previsto
        ELSE P = {}

\* C7 amended: no Payable of a purchase exists before it is recebida; once it is,
\* exactly one exists, with valor total_previsto, when total_previsto > 0; when
\* total_previsto is 0, one exists with valor total_recebido if that is > 0 and
\* none otherwise.
C7_UmPayableSeValor ==
    \A c \in 1..Len(db.purchases) :
        LET P == PayablesDaCompra(db, c)
            valor == IF db.purchases[c].total_previsto > 0
                     THEN db.purchases[c].total_previsto
                     ELSE db.purchases[c].total_recebido
        IN IF db.purchases[c].status = "recebida" /\ valor > 0
           THEN /\ Cardinality(P) = 1
                /\ \A i \in P : db.payables[i].valor = valor
           ELSE P = {}

\* A further receber_compra was just refused on a purchase that two receipts
\* had completed and that has its Payable.
C7_Witness ==
    /\ last.op = "receber_compra" /\ ~last.ok
    /\ GetPurchase(db, last.k.compra_id)
    /\ db.purchases[last.k.compra_id].status = "recebida"
    /\ last.k.itens # <<>>
    /\ Cardinality(EntradasDaCompra(db, last.k.compra_id)) = 2
    /\ Cardinality(PayablesDaCompra(db, last.k.compra_id)) = 1

-----------------------------------------------------------------------------
(* Inventory counting *)

MaxOpsInventario == 6  \* SpecInventario: requests stop at this audit log length

NextInventario ==
    \/ Lim(MaxOpsInventario) /\ CriarProduto({1}, {NoEan}, {5000}, {10000})
    \/ Lim(MaxOpsInventario) /\ AjusteEstoque({1}, {Um}, {"entrada_ajuste", "saida_ajuste"})
    \/ Lim(MaxOpsInventario) /\ CriarSessaoInventario({1})
    \/ Lim(MaxOpsInventario) /\ RegistrarContagem({1}, {0, Um, 2 * Um})
    \/ Lim(MaxOpsInventario) /\ ConciliarInventario({1})

SpecInventario == Init /\ [][NextInventario]_vars

\* The last request was a conciliar_inventario of a session that an earlier
\* conciliar_inventario had closed.
SegundaConciliacao ==
    /\ last.op = "conciliar_inventario"
    /\ GetSession(prev, last.k.session_id)
    /\ ~prev.inventory_sessions[last.k.session_id].aberta

\* C8: a second conciliar_inventario on a session that the first call reconciled
\* and closed emits no StockMove, changes no StockItem quantity and no
\* InventoryCount row, and leaves the session closed.
C8_ConciliarIdempotente ==
    SegundaConciliacao =>
        /\ db.stock_moves = prev.stock_moves
        /\ db.stock_items = prev.stock_items
        /\ db.inventory_counts = prev.inventory_counts
        /\ ~db.inventory_sessions[last.k.session_id].aberta

\* The second call was just made on a session whose first reconciliation had
\* emitted an adjustment.
C8_Witness ==
    /\ SegundaConciliacao
    /\ \E i \in 1..Len(db.stock_moves) :
           /\ db.stock_moves[i].ref_origem = "inventory"
           /\ db.stock_moves[i].ref_id = last.k.session_id
    /\ \A i \in CountIds(db, last.k.session_id) : db.inventory_counts[i].conciliado

-----------------------------------------------------------------------------
(* Weighted average cost on receipt *)

MaxOpsCusto == 6       \* SpecCusto: requests stop at this audit log length

\* A product of cost custo_raw with qtd_raw on hand, and a sent purchase of it.
ProdutoComEstoque(custo_raw, qtd_raw) ==
    LET d1 == criar_produto([EmptyDb EXCEPT !.suppliers = <<Supplier(1, TRUE)>>],
                            1, NoEan, custo_raw, 10000).db
        d2 == IF qtd_raw > 0 THEN ajuste_estoque(d1, 1, 1, qtd_raw, "entrada_ajuste").db ELSE d1
        d3 == criar_pedido_compra(d2, 1, 1, <<Item(1, 30 * Um, 7000)>>).db
    IN enviar_compra(d3, 1).db

InitCusto ==
    \E custo_raw \in {0, 3335, 5000}, qtd_raw \in {0, 30, 10 * Um} :
        InitDb(ProdutoComEstoque(custo_raw, qtd_raw))

NextCusto ==
    Lim(MaxOpsCusto)
    /\ ReceberCompra({<<RecCusto(1, q, c)>> : q \in {25, Um, 10 * Um},
                                             c \in {NoCusto, 10, 7000, 10015}})

SpecCusto == InitCusto /\ [][NextCusto]_vars

\* The last request was a successful receber_compra of one line.
UmaEntrada ==
    /\ last.op = "receber_compra" /\ last.ok
    /\ Len(last.k.itens) = 1
    /\ Len(db.stock_moves) = Len(prev.stock_moves) + 1

\* C9: an entrada_compra move of quantity q at cost c on a product with on-hand
\* Q and cost C leaves on-hand Q + q and custo_atual equal to (C*Q + c*q)/(Q + q)
\* rounded half-up to the cent; Q = 10, C = 5.00, q = 10, c = 7.00 gives on-hand
\* 20 and custo_atual 6.00.
C9_CustoMedioPonderado ==
    UmaEntrada =>
        LET mv == db.stock_moves[Len(db.stock_moves)]
            key == <<mv.store_id, mv.product_id>>
            Q == prev.stock_items[key]
            C == prev.products[mv.product_id].custo_atual
            novo == db.products[mv.product_id].custo_atual
        IN /\ mv.tipo = "entrada_compra"
           /\ db.stock_items[key] = Q + mv.qtd
           /\ 2 * (Q + mv.qtd) * novo - (Q + mv.qtd) <= 2 * (C * Q + mv.custo * mv.qtd)
           /\ 2 * (C * Q + mv.custo * mv.qtd) < 2 * (Q + mv.qtd) * novo + (Q + mv.qtd)
           /\ (Q = 10 * QtdScale /\ C = 500 /\ mv.qtd = 10 * QtdScale /\ mv.custo = 700)
                  => (db.stock_items[key] = 20 * QtdScale /\ novo = 600)

\* The receipt of 10 at 7.00 on 10 on hand at 5.00 has just been made.
C9_Witness ==
    /\ UmaEntrada
    /\ prev.stock_items[<<1, 1>>] = 10 * QtdScale
    /\ prev.products[1].custo_atual = 500
    /\ db.stock_moves[Len(db.stock_moves)].qtd = 10 * QtdScale
    /\ db.stock_moves[Len(db.stock_moves)].custo = 700
    /\ db.products[1].custo_atual = 600

-----------------------------------------------------------------------------
(* Concurrent transactions on the stock rows *)

MaxOpsConc == 6        \* SpecConc: no transaction begins at this audit log length
Txns == {1, 2}         \* the concurrent transactions

\* .with_for_update(nowait=False)
nowait == FALSE

\* SELECT ... FOR UPDATE of the StockItem row: granted when no other transaction
\* holds the row.
RowLockIgnored(t, key) == TRUE

RowLockFree(t, key) == lock[key] \in {NoId, t}

Idle == [pc |-> "idle", k |-> [store_id |-> NoId, product_id |-> NoId, qtd |-> 0,
                               tipo |-> "none", esperou |-> FALSE],
         ok |-> TRUE, falha |-> "none", quantidade |-> 0, rows |-> <<>>, logs |-> <<>>]

TxKey(t) == <<txn[t].k.store_id, txn[t].k.product_id>>

\* Two products, one unit of the first on hand.
DoisProdutos ==
    LET d1 == criar_produto(EmptyDb, 1, NoEan, 5000, 10000).db
        d2 == criar_produto(d1, 1, NoEan, 5000, 10000).db
    IN ajuste_estoque(d2, 1, 1, Um, "entrada_ajuste").db

InitConc ==
    /\ db = DoisProdutos
    /\ prev = DoisProdutos
    /\ last = [op |-> "init", ok |-> TRUE, k |-> Idle.k]
    /\ txn = [t \in Txns |-> Idle]
    /\ lock = [key \in DOMAIN DoisProdutos.stock_items |-> NoId]

\* A request opens its transaction and calls ajuste_estoque; nothing is flushed yet.
TxBegin(t) ==
    /\ txn[t].pc = "idle"
    /\ \E p \in 1..Len(db.products), tipo \in {"entrada_ajuste", "saida_ajuste"} :
           txn' = [txn EXCEPT ![t] =
                      [Idle EXCEPT !.pc = "flush",
                                   !.k = [store_id |-> 1, product_id |-> p,
                                          qtd |-> _as_qtd(Um, RawScale), tipo |-> tipo,
                                          esperou |-> lock[<<1, p>>] \notin {NoId, t}]]]
    /\ UNCHANGED <<db, prev, last, lock>>

\* The flush inserts the StockMove and the hook reads the StockItem row
\* FOR UPDATE: it waits while another transaction holds the row, then computes
\* the new quantity from the committed row.
TxLock(t) ==
    /\ txn[t].pc = "flush"
    /\ LET k == txn[t].k
           r == ajuste_estoque(db, k.store_id, k.product_id, k.qtd * RawScale, k.tipo)
       IN IF RowLockFree(t, TxKey(t))
          THEN /\ lock' = [lock EXCEPT ![TxKey(t)] = t]
               /\ txn' = [txn EXCEPT ![t] =
                             [@ EXCEPT !.pc = "locked", !.ok = r.ok,
                                       !.falha = IF r.ok THEN "none" ELSE "estoque",
                                       !.quantidade = r.db.stock_items[TxKey(t)],
                                       !.rows = SubSeq(r.db.stock_moves,
                                                       Len(db.stock_moves) + 1,
                                                       Len(r.db.stock_moves)),
                                       !.logs = SubSeq(r.db.audit_logs,
                                                       Len(db.audit_logs) + 1,
                                                       Len(r.db.audit_logs))]]
          ELSE /\ nowait
               /\ lock' = lock
               /\ txn' = [txn EXCEPT ![t] = [@ EXCEPT !.pc = "locked", !.ok = FALSE,
                                                      !.falha = "lock"]]
    /\ UNCHANGED <<db, prev, last>>

\* transaction(): commit writes the rows of the transaction and releases its lock.
TxCommit(t) ==
    /\ txn[t].pc = "locked" /\ txn[t].ok
    /\ db' = [db EXCEPT !.stock_items[TxKey(t)] = txn[t].quantidade,
                        !.stock_moves = @ \o txn[t].rows,
                        !.audit_logs = @ \o txn[t].logs]
    /\ prev' = db
    /\ last' = [op |-> "ajuste_estoque", ok |-> TRUE, k |-> txn[t].k]
    /\ lock' = [key \in DOMAIN lock |-> IF lock[key] = t THEN NoId ELSE lock[key]]
    /\ txn' = [txn EXCEPT ![t] = Idle]

\* transaction(): rollback discards them and releases the lock.
TxRollback(t) ==
    /\ txn[t].pc = "locked" /\ ~txn[t].ok
    /\ db' = db
    /\ prev' = db
    /\ last' = [op |-> "ajuste_estoque", ok |-> FALSE,
                k |-> [txn[t].k EXCEPT !.tipo = txn[t].falha]]
    /\ lock' = [key \in DOMAIN lock |-> IF lock[key] = t THEN NoId ELSE lock[key]]
    /\ txn' = [txn EXCEPT ![t] = Idle]

NextConc ==
    \/ \E t \in Txns : Lim(MaxOpsConc) /\ TxBegin(t)
    \/ \E t \in Txns : TxLock(t)
    \/ \E t \in Txns : TxCommit(t)
    \/ \E t \in Txns : TxRollback(t)

SpecConc == InitConc /\ [][NextConc]_vars

\* C4: concurrent stock moves on one (store, product) are serialized by the row
\* lock held until commit, so the committed quantity is the signed sum of
\* exactly the committed moves; a movement on a product whose row is held waits
\* and never fails for it, and a movement on a product whose row is free is
\* never made to wait.
C4_SemAtualizacaoPerdida ==
    /\ \A key \in DOMAIN db.stock_items : db.stock_items[key] = Replay(db.stock_moves, key)
    /\ \A key \in DOMAIN db.stock_items : db.stock_items[key] >= 0
    /\ \A t \in Txns : txn[t].falha # "lock"
    /\ last.op = "ajuste_estoque" /\ ~last.ok => last.k.tipo = "estoque"
    /\ \A t \in Txns :
           (txn[t].pc = "flush" /\ lock[TxKey(t)] = NoId) => RowLockFree(t, TxKey(t))
    /\ \A t, u \in Txns :
           (t # u /\ txn[t].pc = "locked" /\ txn[u].pc = "locked") => TxKey(t) # TxKey(u)

\* A transaction that began while another held the row of its product has just
\* committed after it, and both moves are in the ledger.
C4_Witness ==
    /\ last.op = "ajuste_estoque" /\ last.ok /\ last.k.esperou
    /\ prev.stock_items[<<last.k.store_id, last.k.product_id>>]
           # DoisProdutos.stock_items[<<last.k.store_id, last.k.product_id>>]
    /\ \E t \in Txns : txn[t].pc = "locked" /\ TxKey(t) # <<last.k.store_id, last.k.product_id>>

-----------------------------------------------------------------------------
(* Checkout and cancellation *)

\* The StockMove rows the last request committed.
NovosMoves == SubSeq(db.stock_moves, Len(prev.stock_moves) + 1, Len(db.stock_moves))

\* The rows of NovosMoves are, line for line, one move of the given tipo per
\* line of the sale as it was before the request, with the line's product and
\* qtd and the reference sale/id.
UmMovePorLinha(sale_id, tipo) ==
    LET ids == SaleItemIds(prev, sale_id)
        N == NovosMoves
    IN /\ Len(N) = Cardinality(ids)
       /\ \A j \in 1..Len(N) :
              /\ N[j].tipo = tipo
              /\ N[j].ref_origem = "sale" /\ N[j].ref_id = sale_id
              /\ N[j].store_id = prev.sales[sale_id].store_id
       /\ \A i \in ids :
              Cardinality({j \in 1..Len(N) :
                              /\ N[j].product_id = prev.sale_items[i].product_id
                              /\ N[j].qtd = prev.sale_items[i].qtd})
              = Cardinality({k \in ids :
                                /\ prev.sale_items[k].product_id = prev.sale_items[i].product_id
                                /\ prev.sale_items[k].qtd = prev.sale_items[i].qtd})

\* C11: pagar_venda succeeds only on an open sale with at least one line and a
\* pagamento in {dinheiro, cartao, pix, misto}; on success the sale is concluida,
\* troco = max(valor_pago - total, 0) and exactly one saida_venda StockMove per
\* line is emitted, with the line's qtd and the reference sale/id; one line of
\* 2 at 10.00 paid with 20.00 gives total 20.00, troco 0.00 and one move of 2.
C11_Checkout ==
    (last.op = "pagar_venda" /\ last.ok) =>
        LET s == last.k.sale_id IN
        /\ GetSale(prev, s) /\ prev.sales[s].status = "aberta"
        /\ SaleItemIds(prev, s) # {}
        /\ last.k.pagamento \in {"dinheiro", "cartao", "pix", "misto"}
        /\ db.sales[s].status = "concluida"
        /\ db.sales[s].troco =
               (IF last.k.valor_pago - prev.sales[s].total > 0
                THEN last.k.valor_pago - prev.sales[s].total ELSE 0)
        /\ UmMovePorLinha(s, "saida_venda")
        /\ (/\ Cardinality(SaleItemIds(prev, s)) = 1
            /\ \A i \in SaleItemIds(prev, s) :
                   prev.sale_items[i].qtd = 2 * QtdScale /\ prev.sale_items[i].preco_unit = 1000
                   /\ prev.sale_items[i].desconto = 0
            /\ last.k.valor_pago = 2000)
               => (/\ db.sales[s].subtotal = 2000 /\ db.sales[s].total = 2000
                   /\ db.sales[s].troco = 0
                   /\ Len(NovosMoves) = 1 /\ NovosMoves[1].qtd = 2 * QtdScale)

\* The sale of one line of 2 at 10.00 has just been paid with 20.00.
C11_Witness ==
    /\ last.op = "pagar_venda" /\ last.ok
    /\ last.k.valor_pago = 2000
    /\ db.sales[last.k.sale_id].total = 2000
    /\ db.sales[last.k.sale_id].troco = 0
    /\ Len(NovosMoves) = 1
    /\ NovosMoves[1].tipo = "saida_venda" /\ NovosMoves[1].qtd = 2 * QtdScale

MaxOpsCancela == 8     \* SpecCancela: requests stop at this audit log length

\* Two products with two units on hand each, priced 10.00 and 0.01.
ProdutosComEstoque ==
    LET d1 == criar_produto(EmptyDb, 1, NoEan, 5000, 10000).db
        d2 == criar_produto(d1, 1, NoEan, 0, 10).db
        d3 == ajuste_estoque(d2, 1, 1, 2 * Um, "entrada_ajuste").db
    IN ajuste_estoque(d3, 1, 2, 2 * Um, "entrada_ajuste").db

InitCancela == InitDb(ProdutosComEstoque)

NextCancela ==
    \/ Lim(MaxOpsCancela) /\ AbrirVenda({1}, {Operador})
    \/ Lim(MaxOpsCancela) /\ AdicionarItemVenda({10000, Um}, {1})
    \/ Lim(MaxOpsCancela) /\ PagarVenda({"dinheiro"}, {20000}, {NoId})
    \/ Lim(MaxOpsCancela) /\ CancelarVenda

SpecCancela == InitCancela /\ [][NextCancela]_vars

\* C12: cancelar_venda on a concluida sale that has items emits one devolucao
\* StockMove per line with the line's qtd, so that on-hand after pagar_venda
\* followed by cancelar_venda equals on-hand before pagar_venda for every
\* product, for every sale, one whose total is 0.00 included.
C12_CancelarReverte ==
    (/\ last.op = "cancelar_venda" /\ last.ok
     /\ prev.sales[last.k.sale_id].status = "concluida"
     /\ SaleItemIds(prev, last.k.sale_id) # {}) =>
        /\ UmMovePorLinha(last.k.sale_id, "devolucao")
        /\ last.k.desfaz => db.stock_items = last.k.antes

\* The last request was a cancelar_venda of a sale that was aberta or concluida.
CancelaPermitida ==
    /\ last.op = "cancelar_venda"
    /\ GetSale(prev, last.k.sale_id)
    /\ prev.sales[last.k.sale_id].status \in {"aberta", "concluida"}

-----------------------------------------------------------------------------
(* Adding a line: the sales and products a line is refused for *)

MaxOpsItem == 8     \* SpecItem: requests stop at this audit log length

\* Store 1 has product 1 (on sale) and product 3 (removed by the delete view);
\* product 2 is of store 2; no row has id 4.
ProdutosDeDuasLojas ==
    LET d1 == criar_produto(EmptyDb, 1, NoEan, 5000, 10000).db
        d2 == criar_produto(d1, 2, NoEan, 5000, 10000).db
        d3 == criar_produto(d2, 1, NoEan, 5000, 10000).db
    IN delete(d3, 1, 3).db

InitItem == InitDb(ProdutosDeDuasLojas)

NextItem ==
    \/ Lim(MaxOpsItem) /\ AbrirVenda({1}, {Operador})
    \/ Lim(MaxOpsItem) /\ AtualizarProduto({1}, {[ativo |-> FALSE], [ativo |-> TRUE]})
    \/ Lim(MaxOpsItem) /\ AdicionarItem(1..4, {Um}, {1})
    \/ Lim(MaxOpsItem) /\ CancelarVenda

SpecItem == InitItem /\ [][NextItem]_vars

\* The product of a request is one a line may be added for, read before it.
ProdutoVendavel(d, sale_id, product_id) ==
    /\ GetProduct(d, product_id)
    /\ d.products[product_id].store_id = d.sales[sale_id].store_id
    /\ ~d.products[product_id].deleted
    /\ d.products[product_id].ativo

\* C14: adicionar_item_venda fails, adding no SaleItem and leaving the sale's
\* subtotal, desconto and total unchanged, whenever the sale is not open or the
\* product is missing, of another store, soft-deleted or inactive.
C14_ItemRecusado ==
    (/\ last.op = "adicionar_item_venda"
     /\ \/ prev.sales[last.k.sale_id].status # "aberta"
        \/ ~ProdutoVendavel(prev, last.k.sale_id, last.k.product_id))
    => /\ ~last.ok
       /\ db.sale_items = prev.sale_items
       /\ db.sales[last.k.sale_id] = prev.sales[last.k.sale_id]

-----------------------------------------------------------------------------
(* Two stores: the requests of a user of one store, the rows of the other *)

MaxOpsLojas == 9     \* SpecLojas: requests stop at this audit log length

LojaDoUsuario == 1   \* current_user.store_id of every request of SpecLojas

\* Store 2 owns product 1 (two units on hand), an open sale with one line, a
\* purchase order in rascunho and an open inventory session; store 1 owns
\* product 2.
DuasLojas ==
    LET d0 == [EmptyDb EXCEPT !.suppliers = <<Supplier(2, TRUE)>>]
        d1 == criar_produto(d0, 2, NoEan, 5000, 10000).db
        d2 == criar_produto(d1, LojaDoUsuario, NoEan, 5000, 10000).db
        d3 == ajuste_estoque(d2, 2, 1, 2 * Um, "entrada_ajuste").db
        d4 == abrir_venda(d3, 2, Operador).db
        d5 == adicionar_item_venda(d4, 1, 1, Um, NoId).db
        d6 == criar_pedido_compra(d5, 2, 1, <<Item(1, 2 * Um, 7000)>>).db
    IN criar_sessao_inventario(d6, 2, TRUE).db

InitLojas == InitDb(DuasLojas)

NextLojas ==
    \/ Lim(MaxOpsLojas) /\ EnviarCompra
    \/ Lim(MaxOpsLojas) /\ ReceberCompra({<<Rec(1, Um)>>})
    \/ Lim(MaxOpsLojas) /\ AdicionarItem(1..2, {Um}, {1})
    \/ Lim(MaxOpsLojas) /\ RemoverItemVenda
    \/ Lim(MaxOpsLojas) /\ PagarVenda({"dinheiro"}, {20000}, {NoId})
    \/ Lim(MaxOpsLojas) /\ CancelarVenda
    \/ Lim(MaxOpsLojas) /\ AtualizarProduto(1..2, {[ativo |-> FALSE]})
    \/ Lim(MaxOpsLojas) /\ AjusteEstoque({LojaDoUsuario}, {Um}, {"entrada_ajuste"})
    \/ Lim(MaxOpsLojas) /\ RegistrarContagem({LojaDoUsuario}, {Um})
    \/ Lim(MaxOpsLojas) /\ ConciliarInventario({LojaDoUsuario})
    \/ Lim(MaxOpsLojas) /\ PublicarPreco({LojaDoUsuario}, 1..2, {20000})

SpecLojas == InitLojas /\ [][NextLojas]_vars

\* The rows of table t that d holds for another store than the user's.
Alheias(d, t) == {i \in 1..Len(d[t]) : d[t][i].store_id # LojaDoUsuario}

\* The last request left every row of another store as it was.
AlheiasIntactas ==
    /\ \A t \in {"purchases", "sales", "products", "inventory_sessions"} :
           \A i \in Alheias(prev, t) : db[t][i] = prev[t][i]
    /\ \A i \in 1..Len(prev.sale_items) :
           prev.sales[prev.sale_items[i].sale_id].store_id # LojaDoUsuario
               => db.sale_items[i] = prev.sale_items[i]
    /\ \A key \in DOMAIN prev.stock_items :
           key[1] # LojaDoUsuario => db.stock_items[key] = prev.stock_items[key]

\* The last request named a purchase, sale, line or product of another store.
AlvoAlheio ==
    \/ /\ last.op \in {"enviar_compra", "receber_compra"}
       /\ last.k.compra_id \in Alheias(prev, "purchases")
    \/ /\ last.op \in {"adicionar_item_venda", "remover_item_venda", "pagar_venda",
                       "cancelar_venda"}
       /\ last.k.sale_id \in Alheias(prev, "sales")
    \/ /\ last.op \in {"adicionar_item_venda", "atualizar_produto", "ajuste_estoque",
                       "registrar_contagem", "publicar_preco"}
       /\ last.k.product_id \in Alheias(prev, "products")
    \/ /\ last.op \in {"registrar_contagem", "conciliar_inventario"}
       /\ last.k.session_id \in Alheias(prev, "inventory_sessions")

\* C15: no service operation executed on behalf of a user of store S accepts
\* as valid, or changes, a Purchase, Sale, SaleItem, Product, StockItem or
\* InventorySession whose store_id differs from S.
C15_IsolamentoDeLoja ==
    /\ AlheiasIntactas
    /\ AlvoAlheio => ~last.ok

-----------------------------------------------------------------------------
(* Unit of work: a block that raises leaves nothing behind *)

MaxOpsAtomico == 6     \* SpecAtomico: requests stop at this audit log length

InitAtomico == InitDb([ProdutosDeDuasLojas EXCEPT !.suppliers = <<Supplier(1, TRUE)>>])

\* Orders of one or two items: the first item is acceptable, the second is
\* acceptable, or has qtd 0, a negative cost, or a product that is unknown, of
\* another store or soft-deleted.
Pedidos ==
    {<<Item(1, Um, 7000)>>}
    \cup {<<Item(1, Um, 7000), x>> :
             x \in {Item(1, 2 * Um, 7000), Item(1, 0, 7000), Item(1, Um, -10),
                    Item(4, Um, 7000), Item(2, Um, 7000), Item(3, Um, 7000)}}

NextAtomico ==
    \/ Lim(MaxOpsAtomico) /\ CriarPedidoCompra({1}, {1}, Pedidos)
    \/ Lim(MaxOpsAtomico) /\ BlocoAjusteEPedido({1}, {Um}, {1}, Pedidos)
    \/ Lim(MaxOpsAtomico) /\ EnviarCompra

SpecAtomico == InitAtomico /\ [][NextAtomico]_vars

\* criar_pedido_compra cannot accept the item dto for store_id.
ItemInvalido(d, store_id, dto) ==
    \/ ~(_as_qtd(dto.qtd, RawScale) > 0)
    \/ ~(_as_money(dto.custo, RawScale) >= 0)
    \/ ~GetProduct(d, dto.product_id)
    \/ d.products[dto.product_id].store_id # store_id
    \/ d.products[dto.product_id].deleted

\* The last request carried an order with an item that cannot be accepted.
PedidoComItemInvalido ==
    /\ last.op \in {"criar_pedido_compra", "bloco"}
    /\ \E i \in 1..Len(last.k.itens) : ItemInvalido(prev, last.k.store_id, last.k.itens[i])

\* C16: a raise inside a transaction() block rolls the whole block back and
\* surfaces as a failure: a request that fails leaves the database as it was;
\* criar_pedido_compra with an item that has qtd <= 0, a negative cost or an
\* unknown, foreign or deleted product fails and persists no Purchase,
\* PurchaseItem or AuditLog; a call that succeeded earlier in the same block
\* is undone with it.
C16_UnidadeDeTrabalho ==
    /\ ~last.ok => db = prev
    /\ PedidoComItemInvalido =>
           /\ ~last.ok
           /\ db.purchases = prev.purchases
           /\ db.purchase_items = prev.purchase_items
           /\ db.audit_logs = prev.audit_logs
           /\ db.stock_moves = prev.stock_moves /\ db.stock_items = prev.stock_items

\* A block whose ajuste_estoque succeeded and whose order had an acceptable
\* first item and an unacceptable second one: nothing of it is left.
C16_Witness ==
    /\ last.op = "bloco" /\ last.k.primeiro_ok /\ ~last.ok
    /\ Len(last.k.itens) = 2
    /\ ~ItemInvalido(prev, last.k.store_id, last.k.itens[1])
    /\ ItemInvalido(prev, last.k.store_id, last.k.itens[2])
    /\ db = prev

-----------------------------------------------------------------------------
(* Audit trail: every service, from a store with one stocked product *)

MaxOpsAudit == 8     \* SpecAudit: requests stop at this audit log length

InitAudit ==
    InitDb([ProdutoComEstoque(5000, 2 * Um) EXCEPT !.suppliers = <<Supplier(1, TRUE)>>])

NextAudit ==
    \/ Lim(MaxOpsAudit) /\ CriarProduto({1}, {NoEan}, {5000}, {10000})
    \/ Lim(MaxOpsAudit) /\ AtualizarProduto({1}, {[ativo |-> FALSE]})
    \/ Lim(MaxOpsAudit) /\ PublicarPreco({1}, {1}, {20000})
    \/ Lim(MaxOpsAudit) /\ AjusteEstoque({1}, {Um}, {"saida_ajuste"})
    \/ Lim(MaxOpsAudit) /\ CriarPedidoCompra({1}, {1}, {<<Item(1, Um, 7000)>>})
    \/ Lim(MaxOpsAudit) /\ EnviarCompra
    \/ Lim(MaxOpsAudit) /\ ReceberCompra({<<Rec(1, Um)>>})
    \/ Lim(MaxOpsAudit) /\ AbrirVenda({1}, {Operador})
    \/ Lim(MaxOpsAudit) /\ AdicionarItemVenda({Um}, {1})
    \/ Lim(MaxOpsAudit) /\ RemoverItemVenda
    \/ Lim(MaxOpsAudit) /\ PagarVenda({"dinheiro"}, {20000}, {NoId})
    \/ Lim(MaxOpsAudit) /\ CancelarVenda
    \/ Lim(MaxOpsAudit) /\ CriarSessaoInventario({1})
    \/ Lim(MaxOpsAudit) /\ RegistrarContagem({1}, {0, Um})
    \/ Lim(MaxOpsAudit) /\ ConciliarInventario({1})

SpecAudit == InitAudit /\ [][NextAudit]_vars

\* The acao of the entry each mutating service writes.
AcaoDe ==
    [criar_produto |-> {"created"}, atualizar_produto |-> {"updated"},
     publicar_preco |-> {"price_change"}, ajuste_estoque |-> {"adjust"},
     criar_pedido_compra |-> {"created"}, enviar_compra |-> {"submitted"},
     receber_compra |-> {"received"}, abrir_venda |-> {"created"},
     adicionar_item_venda |-> {"item_added"}, remover_item_venda |-> {"item_removed"},
     pagar_venda |-> {"paid"}, cancelar_venda |-> {"canceled"},
     registrar_contagem |-> {"created", "updated"},
     conciliar_inventario |-> {"reconciled"}]

\* C17: every successful call of a mutating service appends exactly one
\* AuditLog entry, committed if and only if the mutation is: a request that
\* succeeded left the log one entry longer, the new entry being the service's;
\* a request that failed left the log, and the database, as they were.
C17_UmaEntradaPorChamada ==
    last.op \in DOMAIN AcaoDe =>
        IF last.ok
        THEN /\ Len(db.audit_logs) = Len(prev.audit_logs) + 1
             /\ SubSeq(db.audit_logs, 1, Len(prev.audit_logs)) = prev.audit_logs
             /\ db.audit_logs[Len(db.audit_logs)].acao \in AcaoDe[last.op]
        ELSE db = prev

\* receber_compra just succeeded: a stock move, a payable and the purchase's
\* status were written, with one "received" entry.
C17_Witness ==
    /\ last.op = "receber_compra" /\ last.ok
    /\ Len(db.stock_moves) = Len(prev.stock_moves) + 1
    /\ Len(db.audit_logs) = Len(prev.audit_logs) + 1
    /\ db.audit_logs[Len(db.audit_logs)].acao = "received"

-----------------------------------------------------------------------------
(* Who writes on-hand quantity and cost: the services and the edit view *)

MaxOpsEdicao == 7     \* SpecEdicao: requests stop at this audit log length

MaxPriceVersions == 2 \* SpecEdicao: the edit view stops changing the price

InitEdicao == InitAudit

NextEdicao ==
    \/ Lim(MaxOpsEdicao) /\ AjusteEstoque({1}, {Um}, {"entrada_ajuste", "saida_ajuste"})
    \/ Lim(MaxOpsEdicao) /\ ReceberCompra({<<Rec(1, Um)>>})
    \/ Lim(MaxOpsEdicao) /\ AtualizarProduto({1}, {[ativo |-> FALSE, custo_atual |-> 9900]})
    \/ Lim(MaxOpsEdicao) /\ PublicarPreco({1}, {1}, {20000})
    \/ Lim(MaxOpsEdicao) /\ AbrirVenda({1}, {Operador})
    \/ Lim(MaxOpsEdicao) /\ AdicionarItemVenda({Um}, {1})
    \/ Lim(MaxOpsEdicao) /\ PagarVenda({"dinheiro"}, {20000}, {NoId})
    \/ Lim(MaxOpsEdicao) /\ CancelarVenda
    \/ /\ Lim(MaxOpsEdicao) /\ Len(db.price_versions) < MaxPriceVersions
       /\ EditarProduto({"gerente", "operador"}, {1},
                        {[ean |-> NoEan, custo_atual |-> 500, preco_venda |-> 1000,
                          ativo |-> TRUE],
                         [ean |-> NoEan, custo_atual |-> 650, preco_venda |-> 1200,
                          ativo |-> TRUE]})

SpecEdicao == InitEdicao /\ [][NextEdicao]_vars

\* The signed sum of the moves of one (store, product) among NovosMoves.
NovosParaChave(key) == Replay(NovosMoves, key)

\* C18: StockItem.quantidade changes only as the effect of an inserted
\* StockMove, and Product.custo_atual of an existing product changes only as
\* the effect of an entrada_compra StockMove; no other operation, service or
\* product view, writes either field of an existing row.
C18_SoOMotorEscreve ==
    /\ \A key \in DOMAIN prev.stock_items :
           db.stock_items[key] = prev.stock_items[key] + NovosParaChave(key)
    /\ \A i \in 1..Len(prev.products) :
           db.products[i].custo_atual # prev.products[i].custo_atual
               => \E j \in 1..Len(NovosMoves) :
                      /\ NovosMoves[j].tipo = "entrada_compra"
                      /\ NovosMoves[j].product_id = i

-----------------------------------------------------------------------------
(* The ledger: requests that ask for moves the table refuses *)

MaxOpsLedger == 7     \* SpecLedger: requests stop at this audit log length

InitLedger == InitAudit

\* Quantities that are 0 or round to 0.0000, and a received cost below 0.
NextLedger ==
    \/ Lim(MaxOpsLedger)
       /\ AjusteEstoque({1}, {0, 4, Um}, {"entrada_ajuste", "saida_ajuste"})
    \/ Lim(MaxOpsLedger)
       /\ ReceberCompra({<<Rec(1, Um)>>, <<Rec(1, 0)>>, <<RecCusto(1, Um, -20)>>})
    \/ Lim(MaxOpsLedger) /\ AbrirVenda({1}, {Operador})
    \/ Lim(MaxOpsLedger) /\ AdicionarItemVenda({Um}, {1})
    \/ Lim(MaxOpsLedger) /\ RemoverItemVenda
    \/ Lim(MaxOpsLedger) /\ PagarVenda({"dinheiro"}, {20000}, {NoId})
    \/ Lim(MaxOpsLedger) /\ CancelarVenda
    \/ Lim(MaxOpsLedger) /\ CriarSessaoInventario({1})
    \/ Lim(MaxOpsLedger) /\ RegistrarContagem({1}, {0, Um})
    \/ Lim(MaxOpsLedger) /\ ConciliarInventario({1})

SpecLedger == InitLedger /\ [][NextLedger]_vars

\* C19: the StockMove table is append-only: every persisted move has qtd > 0
\* and custo >= 0, and a request never changes or removes a move that was
\* persisted before it; the table only grows.
C19_LedgerSoCresce ==
    /\ \A i \in 1..Len(db.stock_moves) :
           db.stock_moves[i].qtd > 0 /\ db.stock_moves[i].custo >= 0
    /\ Len(db.stock_moves) >= Len(prev.stock_moves)
    /\ SubSeq(db.stock_moves, 1, Len(prev.stock_moves)) = prev.stock_moves

\* A request added a move to a ledger that already held three.
C19_Witness ==
    /\ last.ok /\ Len(prev.stock_moves) >= 3
    /\ Len(db.stock_moves) > Len(prev.stock_moves)
    /\ \E i \in 1..Len(prev.stock_moves) : db.stock_moves[i].tipo # db.stock_moves[1].tipo

-----------------------------------------------------------------------------
(* Concurrent checkouts: the order in which a sale's rows are locked *)

MaxOpsOrdem == 12      \* SpecOrdem: no transaction begins at this audit log length

IdleVenda == [pc |-> "idle", sale_id |-> NoId, restantes |-> <<>>]

\* Two products with one unit on hand each and two open sales of both: the
\* lines of sale 1 are of products 1, 2 and those of sale 2 of products 2, 1.
VendasCruzadas ==
    LET d1 == criar_produto(EmptyDb, 1, NoEan, 5000, 10000).db
        d2 == criar_produto(d1, 1, NoEan, 5000, 10000).db
        d3 == ajuste_estoque(d2, 1, 1, Um, "entrada_ajuste").db
        d4 == ajuste_estoque(d3, 1, 2, Um, "entrada_ajuste").db
        d5 == abrir_venda(d4, 1, Operador).db
        d6 == abrir_venda(d5, 1, Operador).db
        d7 == adicionar_item_venda(d6, 1, 1, Um, NoId).db
        d8 == adicionar_item_venda(d7, 1, 2, Um, NoId).db
        d9 == adicionar_item_venda(d8, 2, 2, Um, NoId).db
    IN adicionar_item_venda(d9, 2, 1, Um, NoId).db

InitOrdem ==
    /\ db = VendasCruzadas
    /\ prev = VendasCruzadas
    /\ last = [op |-> "init", ok |-> TRUE, k |-> [sale_id |-> NoId]]
    /\ txn = [t \in Txns |-> IdleVenda]
    /\ lock = [key \in DOMAIN VendasCruzadas.stock_items |-> NoId]

\* The StockItem rows the flush of pagar_venda locks, in the order it locks
\* them: one per StockMove, in the order of `for it in sale.items`.
OrdemDosLocks(d, sale_id) ==
    LET mvs == SaleMoves(d, sale_id, "saida_venda", Ascending(SaleItemIds(d, sale_id)))
    IN [i \in 1..Len(mvs) |-> <<mvs[i].store_id, mvs[i].product_id>>]

\* pagar_venda up to db.session.add of the moves: the sale was read as open.
VdBegin(t) ==
    /\ txn[t].pc = "idle"
    /\ \E sale_id \in 1..Len(db.sales) :
           /\ SaleAberta(db, sale_id) /\ SaleItemIds(db, sale_id) # {}
           /\ txn' = [txn EXCEPT ![t] = [pc |-> "flush", sale_id |-> sale_id,
                                         restantes |-> OrdemDosLocks(db, sale_id)]]
    /\ UNCHANGED <<db, prev, last, lock>>

\* The hook of the next move reads its StockItem row FOR UPDATE: it goes on
\* when no other transaction holds the row and waits otherwise.
VdLock(t) ==
    /\ txn[t].pc = "flush" /\ txn[t].restantes # <<>>
    /\ RowLockFree(t, Head(txn[t].restantes))
    /\ lock' = [lock EXCEPT ![Head(txn[t].restantes)] = t]
    /\ txn' = [txn EXCEPT ![t].restantes = Tail(@)]
    /\ UNCHANGED <<db, prev, last>>

\* What the transaction writes: pagar_venda on the rows as they are now,
\* with the sale as the session read it at the beginning.
VdResultado(t) ==
    pagar_venda([db EXCEPT !.sales[txn[t].sale_id].status = "aberta"],
                txn[t].sale_id, "dinheiro", 20000, NoId)

VdCommit(t) ==
    /\ txn[t].pc = "flush" /\ txn[t].restantes = <<>>
    /\ VdResultado(t).ok
    /\ db' = VdResultado(t).db
    /\ prev' = db
    /\ last' = [op |-> "pagar_venda", ok |-> TRUE, k |-> [sale_id |-> txn[t].sale_id]]
    /\ lock' = [key \in DOMAIN lock |-> IF lock[key] = t THEN NoId ELSE lock[key]]
    /\ txn' = [txn EXCEPT ![t] = IdleVenda]

VdRollback(t) ==
    /\ txn[t].pc = "flush" /\ txn[t].restantes = <<>>
    /\ ~VdResultado(t).ok
    /\ db' = db
    /\ prev' = db
    /\ last' = [op |-> "pagar_venda", ok |-> FALSE, k |-> [sale_id |-> txn[t].sale_id]]
    /\ lock' = [key \in DOMAIN lock |-> IF lock[key] = t THEN NoId ELSE lock[key]]
    /\ txn' = [txn EXCEPT ![t] = IdleVenda]

NextOrdem ==
    \/ \E t \in Txns : Lim(MaxOpsOrdem) /\ VdBegin(t)
    \/ \E t \in Txns : VdLock(t)
    \/ \E t \in Txns : VdCommit(t)
    \/ \E t \in Txns : VdRollback(t)

SpecOrdem == InitOrdem /\ [][NextOrdem]_vars

\* Transaction t waits for a row that transaction u holds.
Espera(t, u) ==
    /\ txn[t].pc = "flush" /\ txn[t].restantes # <<>>
    /\ lock[Head(txn[t].restantes)] = u

\* C20: the operations that move several products take the StockItem locks in
\* ascending product id order, so that two concurrent transactions never wait
\* for each other in a cycle and each of them goes on to commit or fail.
C20_SemEsperaCircular ==
    /\ \A t \in Txns :
           \A i \in 1..Len(txn[t].restantes) :
               \A key \in DOMAIN lock :
                   lock[key] = t => key[2] <= txn[t].restantes[i][2]
    /\ \A t, u \in Txns : t # u => ~(Espera(t, u) /\ Espera(u, t))

-----------------------------------------------------------------------------
(* Purchase orders: sending and receiving *)

\* The tables of the database other than the audit log.
Tabelas == DOMAIN EmptyDb \ {"audit_logs"}

\* C21: enviar_compra succeeds only for a purchase in rascunho, which becomes
\* emitida, and fails for every other status; in both cases no StockMove is
\* emitted, no StockItem quantity or product cost changes, no Payable is
\* created and the purchase's items and totals stay as they were.
C21_EnviarSoMudaStatus ==
    last.op = "enviar_compra" =>
        LET c == last.k.compra_id IN
        /\ last.ok <=> prev.purchases[c].status = "rascunho"
        /\ \A t \in Tabelas \ {"purchases"} : db[t] = prev[t]
        /\ db.purchases =
               IF last.ok THEN [prev.purchases EXCEPT ![c].status = "emitida"]
                          ELSE prev.purchases

\* A second order was just sent while the store already held received stock.
C21_Witness ==
    /\ last.op = "enviar_compra" /\ last.ok
    /\ db.purchases[last.k.compra_id].status = "emitida"
    /\ Len(db.stock_moves) > 0
    /\ \E c \in 1..Len(db.purchases) : db.purchases[c].status = "recebida"

\* The products of the items of purchase c.
ProdutosDoPedido(d, c) == {d.purchase_items[i].product_id : i \in PurchaseItemIds(d, c)}

\* Every received line names a product of the purchase and has qtd > 0.
LinhasValidas(d, c, itens) ==
    \A i \in 1..Len(itens) :
        /\ itens[i].product_id \in ProdutosDoPedido(d, c)
        /\ _as_qtd(itens[i].qtd, RawScale) > 0

\* C22: receber_compra is accepted only when the purchase is emitida or
\* parcialmente_recebida and every received line names a product that is an
\* item of the purchase with qtd > 0; each accepted line emits one
\* entrada_compra StockMove with ref purchase/id, whose cost is the override
\* when one is given and the ordered item's cost otherwise.
C22_Recebimento ==
    last.op = "receber_compra" =>
        LET c == last.k.compra_id
            itens == last.k.itens
        IN IF ~(/\ prev.purchases[c].status \in {"emitida", "parcialmente_recebida"}
                /\ LinhasValidas(prev, c, itens))
           THEN ~last.ok /\ db = prev
           ELSE last.ok =>
                  /\ Len(NovosMoves) = Len(itens)
                  /\ \A i \in 1..Len(itens) :
                         LET mv == NovosMoves[i] IN
                         /\ mv.tipo = "entrada_compra"
                         /\ mv.ref_origem = "purchase" /\ mv.ref_id = c
                         /\ mv.product_id = itens[i].product_id
                         /\ mv.qtd = _as_qtd(itens[i].qtd, RawScale)
                         /\ IF itens[i].custo # NoCusto
                            THEN mv.custo = _as_money(itens[i].custo, RawScale)
                            ELSE \E j \in PurchaseItemIds(prev, c) :
                                     /\ prev.purchase_items[j].product_id = mv.product_id
                                     /\ prev.purchase_items[j].custo = mv.custo

\* A line received with a cost override of 8.00 on an item ordered at 7.00.
C22_Witness ==
    /\ last.op = "receber_compra" /\ last.ok
    /\ Len(last.k.itens) = 1 /\ last.k.itens[1].custo # NoCusto
    /\ Len(NovosMoves) = 1 /\ NovosMoves[1].custo = 800
    /\ \E j \in PurchaseItemIds(prev, last.k.compra_id) : prev.purchase_items[j].custo = 700

-----------------------------------------------------------------------------
(* Opening a sale: who may *)

MaxOpsAbrir == 5     \* SpecAbrir: requests stop at this audit log length

Roles == {"admin", "gerente", "operador", "estoquista"}

\* user is None
SemUsuario == [exists |-> FALSE, role |-> "none", ativo |-> FALSE, deleted |-> FALSE]

Usuarios ==
    {User(r, a, del) : r \in Roles, a \in BOOLEAN, del \in BOOLEAN} \cup {SemUsuario}

InitAbrir == InitDb(UmProduto)

NextAbrir ==
    \/ Lim(MaxOpsAbrir) /\ AbrirVenda({1}, Usuarios)
    \/ Lim(MaxOpsAbrir) /\ AdicionarItemVenda({Um}, {1})
    \/ Lim(MaxOpsAbrir) /\ CancelarVenda

SpecAbrir == InitAbrir /\ [][NextAbrir]_vars

\* C23: abrir_venda creates a sale in status aberta with subtotal, desconto and
\* total 0.00 and no lines only when the caller is a non-deleted, active user
\* whose role is admin, gerente or operador; for any other user (role
\* estoquista, inactive, deleted or missing) it fails and creates no sale.
C23_AbrirVenda ==
    last.op = "abrir_venda" =>
        LET u == last.k.user
            n == Len(prev.sales) + 1
        IN IF /\ u.exists /\ ~u.deleted /\ u.ativo
              /\ u.role \in {"admin", "gerente", "operador"}
           THEN /\ last.ok
                /\ Len(db.sales) = n
                /\ SubSeq(db.sales, 1, n - 1) = prev.sales
                /\ db.sales[n].status = "aberta" /\ db.sales[n].store_id = last.k.store_id
                /\ db.sales[n].subtotal = 0 /\ db.sales[n].desconto = 0
                /\ db.sales[n].total = 0
                /\ SaleItemIds(db, n) = {}
                /\ db.sale_items = prev.sale_items
           ELSE ~last.ok /\ db = prev

\* A gerente opened a second sale while the first one holds a line.
C23_Witness ==
    /\ last.op = "abrir_venda" /\ last.ok /\ last.k.user.role = "gerente"
    /\ Len(db.sales) = 2 /\ SaleItemIds(db, 1) # {} /\ SaleItemIds(db, 2) = {}

-----------------------------------------------------------------------------
(* Promotions: which promo prices a line *)

MaxOpsPromo == 6     \* SpecPromo: requests stop at this audit log length

PromoRow(store_id, ativa, ini, fim, prioridade, tipo, value) ==
    [store_id |-> store_id, ativa |-> ativa, deleted |-> FALSE, validade_ini |-> ini,
     validade_fim |-> fim, prioridade |-> prioridade, tipo |-> tipo, value |-> value]

\* Promo rows of the store and of another one: percentage promos of two
\* priorities (two of them tied), one valid from 3 to 4 only, an inactive one,
\* and one of another rule kind.
PromoRows ==
    {PromoRow(1, TRUE, 1, NoId, 10, "desconto_percentual", 10),
     PromoRow(1, TRUE, 1, NoId, 10, "desconto_percentual", 25),
     PromoRow(1, TRUE, 1, NoId, 5, "leve_pague", 50),
     PromoRow(1, TRUE, 3, 4, 1, "desconto_percentual", 50),
     PromoRow(1, FALSE, 1, NoId, 1, "desconto_percentual", 20),
     PromoRow(2, TRUE, 1, NoId, 1, "desconto_percentual", 30)}

\* Product 1 priced 12.50 and product 2 priced 10.00 and inactive, one open sale.
ProdutosDaPromo ==
    LET d1 == criar_produto(EmptyDb, 1, NoEan, 5000, 12500).db
        d2 == criar_produto(d1, 1, NoEan, 5000, 10000).db
        d3 == atualizar_produto(d2, 2, [ativo |-> FALSE]).db
    IN abrir_venda(d3, 1, Operador).db

InitPromo ==
    \E promos \in {<<>>} \cup {<<a>> : a \in PromoRows}
                         \cup {<<a, b>> : a \in PromoRows, b \in PromoRows} :
        InitDb([ProdutosDaPromo EXCEPT !.promos = promos])

NextPromo ==
    \/ Lim(MaxOpsPromo) /\ AdicionarItem(1..2, {Um, 33335}, {2, 3, 5})
    \/ Lim(MaxOpsPromo) /\ PublicarPreco({1}, {1}, {3330})

SpecPromo == InitPromo /\ [][NextPromo]_vars

\* n / den quantized to an integer, half up, for n >= 0.
Round2(n, den) == (2 * n + den) \div (2 * den)

\* The promos of the store that are active and valid at agora.
PromosValidas(d, store_id, agora) ==
    {i \in 1..Len(d.promos) :
        /\ d.promos[i].store_id = store_id /\ d.promos[i].ativa
        /\ d.promos[i].validade_ini <= agora
        /\ (d.promos[i].validade_fim = NoId \/ d.promos[i].validade_fim >= agora)}

\* C24: for an active product, of the store's promos that are active and valid
\* now, the one of lowest prioridade alone is considered: when its rule kind is
\* desconto_percentual the line's discount is unit_price * qty * percent / 100
\* rounded half up to 2 decimals and the line records the promo; for another
\* rule kind, no matching promo or an inactive product the discount is 0.00
\* and no promo is recorded. The unit price is the product's preco_venda.
C24_ResolucaoDePromo ==
    (last.op = "adicionar_item_venda" /\ last.ok) =>
        LET linha == db.sale_items[Len(db.sale_items)]
            produto == prev.products[last.k.product_id]
            V == PromosValidas(prev, prev.sales[last.k.sale_id].store_id, last.k.agora)
            semPromo == linha.desconto = 0 /\ linha.promo_id = NoId
        IN /\ linha.preco_unit = produto.preco_venda
           /\ IF produto.ativo /\ V # {}
              THEN \E i \in V :
                       /\ \A j \in V : prev.promos[i].prioridade <= prev.promos[j].prioridade
                       /\ IF prev.promos[i].tipo = "desconto_percentual"
                          THEN /\ linha.promo_id = i
                               /\ linha.desconto =
                                      Round2(produto.preco_venda * linha.qtd
                                                 * prev.promos[i].value,
                                             QtdScale * 100)
                          ELSE semPromo
              ELSE semPromo

\* A 25% promo of prioridade 10 and a 50% promo of prioridade 1 whose validity
\* ended: the line of one unit at 12.50 takes the 25% one, 3.125 rounded to 3.13.
C24_Witness ==
    /\ last.op = "adicionar_item_venda" /\ last.ok /\ last.k.agora = 5
    /\ Len(prev.promos) = 2
    /\ prev.promos[1].prioridade = 10 /\ prev.promos[1].value = 25
    /\ prev.promos[2].prioridade = 1 /\ prev.promos[2].validade_fim = 4
    /\ db.sale_items[Len(db.sale_items)].promo_id = 1
    /\ db.sale_items[Len(db.sale_items)].qtd = QtdScale
    /\ db.sale_items[Len(db.sale_items)].preco_unit = 1250
    /\ db.sale_items[Len(db.sale_items)].desconto = 313

-----------------------------------------------------------------------------
(* Inventory: counting and reconciling a session *)

MaxOpsConcilia == 8     \* SpecConcilia: requests stop at this audit log length

\* Two products, one unit of the first on hand, and an open session.
SessaoAberta ==
    LET d1 == criar_produto(EmptyDb, 1, NoEan, 5000, 10000).db
        d2 == criar_produto(d1, 1, NoEan, 5000, 10000).db
        d3 == ajuste_estoque(d2, 1, 1, Um, "entrada_ajuste").db
    IN criar_sessao_inventario(d3, 1, TRUE).db

InitConcilia == InitDb(SessaoAberta)

NextConcilia ==
    \/ Lim(MaxOpsConcilia) /\ RegistrarContagem({1}, {0, Um, 2 * Um})
    \/ Lim(MaxOpsConcilia) /\ AjusteEstoque({1}, {Um}, {"entrada_ajuste", "saida_ajuste"})
    \/ Lim(MaxOpsConcilia) /\ ConciliarInventario({1})

SpecConcilia == InitConcilia /\ [][NextConcilia]_vars

\* The last request was conciliar_inventario on an open session of the store
\* that has at least one count.
ConciliaSessaoAberta ==
    /\ last.op = "conciliar_inventario"
    /\ GetSession(prev, last.k.session_id)
    /\ prev.inventory_sessions[last.k.session_id].store_id = last.k.store_id
    /\ prev.inventory_sessions[last.k.session_id].aberta
    /\ CountIds(prev, last.k.session_id) # {}

\* The count rows of the session that call for an adjustment.
Divergentes(d, session_id) ==
    {i \in CountIds(d, session_id) :
        /\ ~d.inventory_counts[i].conciliado
        /\ d.inventory_counts[i].qtd_contada # d.inventory_counts[i].qtd_atual}

\* What a conciliar_inventario that went through has done.
Conciliado ==
    LET s == last.k.session_id
        D == Divergentes(prev, s)
    IN /\ last.ok
       /\ Len(NovosMoves) = Cardinality(D)
       /\ \A i \in D :
              LET ic == prev.inventory_counts[i]
                  J == {j \in 1..Len(NovosMoves) :
                           NovosMoves[j].product_id = ic.product_id}
              IN /\ Cardinality(J) = 1
                 /\ \A j \in J :
                        /\ NovosMoves[j].tipo = IF ic.qtd_contada > ic.qtd_atual
                                                THEN "entrada_ajuste" ELSE "saida_ajuste"
                        /\ NovosMoves[j].qtd = IF ic.qtd_contada > ic.qtd_atual
                                               THEN ic.qtd_contada - ic.qtd_atual
                                               ELSE ic.qtd_atual - ic.qtd_contada
                        /\ NovosMoves[j].ref_origem = "inventory"
                        /\ NovosMoves[j].ref_id = s
       /\ \A i \in 1..Len(prev.inventory_counts) :
              db.inventory_counts[i] =
                  IF i \in CountIds(prev, s)
                  THEN [prev.inventory_counts[i] EXCEPT !.conciliado = TRUE]
                  ELSE prev.inventory_counts[i]
       /\ ~db.inventory_sessions[s].aberta
       /\ last.k.ret =
              <<Cardinality({i \in D : prev.inventory_counts[i].qtd_contada
                                           > prev.inventory_counts[i].qtd_atual}),
                Cardinality({i \in D : prev.inventory_counts[i].qtd_contada
                                           < prev.inventory_counts[i].qtd_atual})>>

\* C25: conciliar_inventario on an open session with at least one count emits,
\* for every count row not yet reconciled whose counted quantity differs from
\* its snapshot, exactly one adjustment StockMove of quantity
\* |counted - snapshot| (entrada_ajuste if counted > snapshot, saida_ajuste
\* otherwise) with ref inventory/session id, nothing for the other rows, marks
\* every processed row conciliado, closes the session and returns the numbers
\* of entrada and saida adjustments.
C25_Conciliar == ConciliaSessaoAberta => Conciliado

\* A saida adjustment of the session is larger than the quantity on hand now.
SaidaExcede ==
    \E i \in Divergentes(prev, last.k.session_id) :
        LET ic == prev.inventory_counts[i] IN
        ic.qtd_atual - ic.qtd_contada > prev.stock_items[<<last.k.store_id, ic.product_id>>]

\* C25 amended: the same, for a call whose saida adjustments do not exceed the
\* quantity on hand at the time of the call; when one does (the stock fell
\* after it was counted) the call fails and changes nothing.
C25_ConciliarSeHaEstoque ==
    ConciliaSessaoAberta => IF SaidaExcede THEN ~last.ok /\ db = prev ELSE Conciliado

\* A session with a count above and a count below the snapshots was just
\* reconciled: one entrada and one saida adjustment.
C25_Witness ==
    /\ ConciliaSessaoAberta /\ last.ok
    /\ last.k.ret = <<1, 1>>
    /\ Len(NovosMoves) = 2

\* The session named by the last request, when that request was a count or a
\* reconciliation on a session already closed.
EmSessaoFechada ==
    /\ last.op \in {"registrar_contagem", "conciliar_inventario"}
    /\ GetSession(prev, last.k.session_id)
    /\ ~prev.inventory_sessions[last.k.session_id].aberta

\* C26: inventory sessions are one-shot: no request sets aberta back to true
\* on a closed session, and registrar_contagem and conciliar_inventario on a
\* closed session fail without creating or changing any InventoryCount or
\* StockMove.
C26_SessaoNaoReabre ==
    /\ \A s \in 1..Len(prev.inventory_sessions) :
           ~prev.inventory_sessions[s].aberta => ~db.inventory_sessions[s].aberta
    /\ EmSessaoFechada =>
           /\ ~last.ok
           /\ db.inventory_counts = prev.inventory_counts
           /\ db.stock_moves = prev.stock_moves

\* A count was just attempted on a session that a reconciliation had closed.
C26_Witness ==
    /\ EmSessaoFechada
    /\ last.op = "registrar_contagem"
    /\ CountIds(prev, last.k.session_id) # {}
    /\ \E i \in 1..Len(prev.audit_logs) : prev.audit_logs[i].acao = "reconciled"

\* The count rows of a session for one product.
LinhasDe(d, session_id, product_id) ==
    {i \in CountIds(d, session_id) : d.inventory_counts[i].product_id = product_id}

\* C27: registrar_contagem is an upsert keyed by (session, product): there is
\* at most one InventoryCount per (session, product), and each call that goes
\* through leaves in that row the counted quantity, the StockItem quantity at
\* the time of the call (0 if there is no StockItem) as snapshot and
\* conciliado = false, overwriting the row when it existed and leaving every
\* other row as it was.
C27_ContagemUpsert ==
    /\ \A s \in 1..Len(db.inventory_sessions), p \in 1..Len(db.products) :
           Cardinality(LinhasDe(db, s, p)) <= 1
    /\ last.op = "registrar_contagem" /\ last.ok =>
           LET s == last.k.session_id
               p == last.k.product_id
               key == <<last.k.store_id, p>>
               antes == LinhasDe(prev, s, p)
           IN /\ Len(db.inventory_counts) =
                     Len(prev.inventory_counts) + (IF antes = {} THEN 1 ELSE 0)
              /\ \A i \in LinhasDe(db, s, p) :
                     db.inventory_counts[i] =
                         [session_id |-> s, product_id |-> p,
                          qtd_contada |-> last.k.qtd_contada,
                          qtd_atual |-> IF key \in DOMAIN prev.stock_items
                                        THEN prev.stock_items[key] ELSE 0,
                          conciliado |-> FALSE]
              /\ LinhasDe(db, s, p) # {}
              /\ antes # {} => LinhasDe(db, s, p) = antes
              /\ \A i \in 1..Len(prev.inventory_counts) :
                     i \notin antes => db.inventory_counts[i] = prev.inventory_counts[i]

\* A product counted before was just counted again after its stock changed:
\* the one row now holds the new count and the new snapshot.
C27_Witness ==
    /\ last.op = "registrar_contagem" /\ last.ok
    /\ \E i \in LinhasDe(prev, last.k.session_id, last.k.product_id) :
           /\ prev.inventory_counts[i].qtd_atual # db.inventory_counts[i].qtd_atual
           /\ prev.inventory_counts[i].qtd_contada # db.inventory_counts[i].qtd_contada

-----------------------------------------------------------------------------
(* Open sales and the stock *)

MaxOpsAberta == 7      \* SpecAberta: requests stop at this audit log length

\* One product with one unit on hand.
UmaUnidade ==
    ajuste_estoque(criar_produto(EmptyDb, 1, NoEan, 5000, 10000).db, 1, 1, Um, "entrada_ajuste").db

InitAberta == InitDb(UmaUnidade)

NextAberta ==
    \/ Lim(MaxOpsAberta) /\ AbrirVenda({1}, {Operador})
    \/ Lim(MaxOpsAberta) /\ AdicionarItemVenda({Um, 2 * Um}, {1})
    \/ Lim(MaxOpsAberta) /\ RemoverItemVenda
    \/ Lim(MaxOpsAberta) /\ PagarVenda({"dinheiro"}, {20000}, {NoId})
    \/ Lim(MaxOpsAberta) /\ CancelarVenda

SpecAberta == InitAberta /\ [][NextAberta]_vars

\* The live lines of an open sale ask for more than is on hand.
PedeMaisQueHa(d, s) ==
    /\ d.sales[s].status = "aberta"
    /\ \E i \in SaleItemIds(d, s) :
           d.sale_items[i].live
           /\ d.sale_items[i].qtd > d.stock_items[StockKey(d, d.sale_items[i].product_id)]

\* C28: stock leaves only at payment: abrir_venda, adicionar_item_venda and
\* remover_item_venda emit no StockMove and leave every StockItem's quantidade
\* and reservado as they were, and a sale that is still open has no StockMove
\* of its own.
C28_VendaAbertaNaoMexeNoEstoque ==
    /\ last.op \in {"abrir_venda", "adicionar_item_venda", "remover_item_venda"} =>
           /\ db.stock_moves = prev.stock_moves
           /\ db.stock_items = prev.stock_items
           /\ db.reservado = prev.reservado
    /\ \A s \in 1..Len(db.sales) :
           db.sales[s].status = "aberta" =>
               \A j \in 1..Len(db.stock_moves) :
                   ~(db.stock_moves[j].ref_origem = "sale" /\ db.stock_moves[j].ref_id = s)

\* Two open sales each hold a line for more than the one unit on hand, the
\* second line just added, and the stock is what it was.
C28_Witness ==
    /\ last.op = "adicionar_item_venda" /\ last.ok
    /\ \E s, t \in 1..Len(db.sales) :
           s # t /\ PedeMaisQueHa(db, s) /\ PedeMaisQueHa(db, t)
    /\ db.stock_items[<<1, 1>>] = Um \div RawScale

-----------------------------------------------------------------------------
(* The moving-average cost and the order of the entries *)

MaxOpsMedia == 5       \* SpecMedia: requests stop at this audit log length

LinhasDeEntrada == {RecCusto(1, q, c) : q \in {Um, 2 * Um}, c \in {0, 10, 7000}}

\* Receipts of two lines, and of three lines at 0.00 or 0.01.
Entradas ==
    {<<a, b>> : a, b \in LinhasDeEntrada}
    \cup {<<a, b, c>> : a, b, c \in {RecCusto(1, Um, 0), RecCusto(1, Um, 10),
                                      RecCusto(1, 2 * Um, 0)}}

InitMedia ==
    \E custo_raw \in {0, 5000}, qtd_raw \in {Um, 2 * Um} :
        InitDb(ProdutoComEstoque(custo_raw, qtd_raw))

NextMedia == Lim(MaxOpsMedia) /\ ReceberCompra(Entradas)

SpecMedia == InitMedia /\ [][NextMedia]_vars

\* The orders in which the lines of a receipt can be applied.
Ordens(itens) ==
    {[i \in 1..Len(itens) |-> itens[f[i]]] : f \in Permutations(1..Len(itens))}

\* The last request received several lines of one product, each one
\* entrada_compra, with nothing between them.
VariasEntradas ==
    /\ last.op = "receber_compra" /\ last.ok
    /\ Len(last.k.itens) >= 2
    /\ Len(NovosMoves) = Len(last.k.itens)
    /\ \A j \in 1..Len(NovosMoves) :
           NovosMoves[j].tipo = "entrada_compra" /\ NovosMoves[j].product_id = 1

\* C29: for any entrada_compra moves of a product applied with nothing between
\* them, the resulting custo_atual and on-hand quantity are the same for every
\* order of application.
C29_OrdemIndiferente ==
    VariasEntradas =>
        \A o \in Ordens(last.k.itens) :
            LET r == receber_compra(prev, last.k.compra_id, o)
            IN /\ r.ok
               /\ r.db.stock_items = db.stock_items
               /\ r.db.products[1].custo_atual = db.products[1].custo_atual

\* C29 amended: the on-hand quantity is the same for every order; custo_atual,
\* rounded to cents after every move, differs between two orders of n moves by
\* at most n - 1 cents.
C29_OrdemAMenosDeCentavos ==
    VariasEntradas =>
        \A o \in Ordens(last.k.itens) :
            LET r == receber_compra(prev, last.k.compra_id, o)
                dif == r.db.products[1].custo_atual - db.products[1].custo_atual
            IN /\ r.ok
               /\ r.db.stock_items = db.stock_items
               /\ Abs(dif) <= Len(last.k.itens) - 1

\* Entries were just applied whose other order leaves another cost.
C29_Witness ==
    /\ VariasEntradas
    /\ \E o \in Ordens(last.k.itens) :
           receber_compra(prev, last.k.compra_id, o).db.products[1].custo_atual
               # db.products[1].custo_atual

-----------------------------------------------------------------------------
(* Soft-deleted rows *)

MaxOpsApagados == 7    \* SpecApagados: requests stop at this audit log length

\* A store whose first supplier and first promo are soft-deleted but still
\* flagged active, with one product in stock, an open sale and an open
\* inventory session.
ComApagados ==
    LET d0 == [EmptyDb EXCEPT
                 !.suppliers = <<[Supplier(1, TRUE) EXCEPT !.deleted = TRUE],
                                 Supplier(1, TRUE)>>,
                 !.promos = <<[Promo(1, 1, "desconto_percentual", 10) EXCEPT !.deleted = TRUE],
                              Promo(1, 2, "desconto_percentual", 5)>>]
        d1 == criar_produto(d0, 1, NoEan, 5000, 10000).db
        d2 == ajuste_estoque(d1, 1, 1, Um, "entrada_ajuste").db
        d3 == abrir_venda(d2, 1, Operador).db
    IN criar_sessao_inventario(d3, 1, TRUE).db

InitApagados == InitDb(ComApagados)

\* The delete view of the products, asked by a user of the given role.
ExcluirProduto(R, S) ==
    \E r \in R, s \in S, pid \in 1..Len(db.products) :
        Request("delete", [store_id |-> s, product_id |-> pid],
                IF _role_can_edit(r) THEN delete(db, s, pid) ELSE Fail(db))

NextApagados ==
    \/ ExcluirProduto({"gerente"}, {1})
    \/ Lim(MaxOpsApagados) /\ AdicionarItem({1}, {Um}, {1})
    \/ Lim(MaxOpsApagados) /\ CriarPedidoCompra({1}, {1, 2}, {<<Item(1, Um, 5000)>>})
    \/ Lim(MaxOpsApagados) /\ AjusteEstoque({1}, {Um}, {"entrada_ajuste"})
    \/ Lim(MaxOpsApagados) /\ PublicarPreco({1}, {1}, {20000})
    \/ Lim(MaxOpsApagados) /\ AtualizarProduto({1}, {[ativo |-> TRUE]})
    \/ Lim(MaxOpsApagados) /\ RegistrarContagem({1}, {Um})

SpecApagados == InitApagados /\ [][NextApagados]_vars

\* The products the last request named.
ProdutosPedidos ==
    IF last.op = "criar_pedido_compra"
    THEN {last.k.itens[i].product_id : i \in 1..Len(last.k.itens)}
    ELSE IF last.op \in {"adicionar_item_venda", "ajuste_estoque", "publicar_preco",
                         "atualizar_produto", "registrar_contagem"}
    THEN {last.k.product_id}
    ELSE {}

\* No request goes through that names a soft-deleted product.
ProdutoApagadoRecusado ==
    (\E p \in ProdutosPedidos : GetProduct(prev, p) /\ prev.products[p].deleted) => ~last.ok

\* criar_pedido_compra does not go through with a soft-deleted supplier.
FornecedorApagadoRecusado ==
    (/\ last.op = "criar_pedido_compra"
     /\ last.k.supplier_id \in 1..Len(prev.suppliers)
     /\ prev.suppliers[last.k.supplier_id].deleted) => ~last.ok

\* No sale line carries a soft-deleted promo.
PromoApagadaIgnorada ==
    \A i \in 1..Len(db.sale_items) :
        db.sale_items[i].promo_id # NoId => ~db.promos[db.sale_items[i].promo_id].deleted

\* C30: soft-deleted records are never used: a soft-deleted Promo is never
\* selected by promotion resolution, a soft-deleted Product is never accepted
\* by adicionar_item_venda, criar_pedido_compra, ajuste_estoque, publicar_preco,
\* atualizar_produto or registrar_contagem, and a soft-deleted Supplier is
\* never accepted by criar_pedido_compra, whatever their ativo flags.
C30_ApagadoNuncaUsado ==
    /\ ProdutoApagadoRecusado
    /\ FornecedorApagadoRecusado
    /\ PromoApagadaIgnorada

-----------------------------------------------------------------------------
(* Barcodes *)

MaxOpsEan == 4         \* SpecEan: requests stop at this audit log length

Rep(c, n) == [i \in 1..n |-> c]

\* Barcodes as typed: absent, empty, without digits, "789-12345-6785" (twelve
\* digits), "11111 111111" (eleven), and runs of 8, 13, 14 and 15 digits.
Barcodes ==
    {NoEan, <<>>, <<"-", "a">>,
     <<"7", "8", "9", "-", "1", "2", "3", "4", "5", "-", "6", "7", "8", "5">>,
     Rep("7", 8), Rep("1", 5) \o <<" ">> \o Rep("1", 6),
     Rep("7", 13), Rep("7", 14), Rep("7", 15)}

InitEan == InitDb(EmptyDb)

NextEan ==
    \/ Lim(MaxOpsEan) /\ CriarProduto({1}, Barcodes, {5000}, {10000})
    \/ Lim(MaxOpsEan) /\ AtualizarProduto(1..2, {[ean |-> b] : b \in Barcodes})
    \/ Lim(MaxOpsEan)
       /\ EditarProduto({"gerente"}, {1},
                        {[ean |-> b, custo_atual |-> 500, preco_venda |-> 1000, ativo |-> TRUE] :
                            b \in {NoEan, Rep("7", 8), Rep("7", 11)}})

SpecEan == InitEan /\ [][NextEan]_vars

\* The digits of the barcode the last request carried.
DigitosPedidos ==
    LET ean == IF last.op = "criar_produto" THEN last.k.ean
               ELSE IF last.op = "atualizar_produto" THEN last.k.dados.ean
               ELSE last.k.form.ean
    IN IF ean = NoEan THEN <<>> ELSE SelectSeq(ean, IsDigito)

\* The product the last request created or updated.
ProdutoPedido ==
    IF last.op = "criar_produto" THEN Len(db.products) ELSE last.k.product_id

\* C31: every persisted Product.ean is absent or a string of digits of length
\* 8, 12, 13 or 14; creating or updating a product with a barcode whose digits
\* have any other non-zero length fails and persists nothing, and a barcode
\* with no digits is stored as absent.
C31_EanValido ==
    /\ \A i \in 1..Len(db.products) :
           LET e == db.products[i].ean
           IN e = NoEan \/ (/\ \A j \in 1..Len(e) : e[j] \in Digitos
                            /\ Len(e) \in {8, 12, 13, 14})
    /\ last.op \in {"criar_produto", "atualizar_produto", "edit"} =>
           /\ Len(DigitosPedidos) \notin {0, 8, 12, 13, 14} => ~last.ok /\ db = prev
           /\ last.ok =>
                  db.products[ProdutoPedido].ean =
                      IF DigitosPedidos = <<>> THEN NoEan ELSE DigitosPedidos

\* An update with eleven digits was just refused on a product that keeps its
\* valid barcode.
C31_Witness ==
    /\ last.op = "atualizar_produto" /\ ~last.ok
    /\ Len(DigitosPedidos) = 11
    /\ GetProduct(db, last.k.product_id)
    /\ db.products[last.k.product_id].ean # NoEan

-----------------------------------------------------------------------------
(* The totals of a sale and its lines *)

\* The sum of one money field over the given sale lines.
RECURSIVE SomaLinhas(_, _, _)
SomaLinhas(d, ids, campo) ==
    IF ids = {} THEN 0
    ELSE LET i == CHOOSE x \in ids : TRUE
         IN d.sale_items[i][campo] + SomaLinhas(d, ids \ {i}, campo)

\* C32: in every state reached by adicionar_item_venda and remover_item_venda
\* calls, each sale's total is the sum of the totals of its current lines and
\* its desconto the sum of their discounts, and each line has
\* total = round2_half_up(preco_unit * qtd) - desconto.
C32_TotaisDaVenda ==
    /\ \A s \in 1..Len(db.sales) :
           /\ db.sales[s].total = SomaLinhas(db, SaleItemIds(db, s), "total")
           /\ db.sales[s].desconto = SomaLinhas(db, SaleItemIds(db, s), "desconto")
    /\ \A i \in 1..Len(db.sale_items) :
           LET si == db.sale_items[i]
           IN si.live => si.total = Round2(si.preco_unit * si.qtd, QtdScale) - si.desconto

\* A discounted line was just removed from a sale that keeps another line.
C32_Witness ==
    /\ last.op = "remover_item_venda" /\ last.ok
    /\ prev.sale_items[last.k.sale_item_id].desconto > 0
    /\ SaleItemIds(db, last.k.sale_id) # {}
    /\ db.sales[last.k.sale_id].desconto > 0

-----------------------------------------------------------------------------
(* Two payments of one sale at the same time *)

MaxOpsDuplo == 12      \* SpecDuplo: no transaction begins at this audit log length

\* Product 1 with two units and product 2 with three on hand; open sale 1 with
\* a line of product 1 and open sale 2 with lines of products 1 and 2.
VendasComEstoque ==
    LET d1 == criar_produto(EmptyDb, 1, NoEan, 5000, 10000).db
        d2 == criar_produto(d1, 1, NoEan, 5000, 10000).db
        d3 == ajuste_estoque(d2, 1, 1, 2 * Um, "entrada_ajuste").db
        d4 == ajuste_estoque(d3, 1, 2, 3 * Um, "entrada_ajuste").db
        d5 == abrir_venda(d4, 1, Operador).db
        d6 == abrir_venda(d5, 1, Operador).db
        d7 == adicionar_item_venda(d6, 1, 1, Um, NoId).db
        d8 == adicionar_item_venda(d7, 2, 1, Um, NoId).db
    IN adicionar_item_venda(d8, 2, 2, Um, NoId).db

InitDuplo ==
    /\ db = VendasComEstoque
    /\ prev = VendasComEstoque
    /\ last = [op |-> "init", ok |-> TRUE, k |-> [sale_id |-> NoId]]
    /\ txn = [t \in Txns |-> IdleVenda]
    /\ lock = [key \in DOMAIN VendasComEstoque.stock_items |-> NoId]

NextDuplo ==
    \/ \E t \in Txns : Lim(MaxOpsDuplo) /\ VdBegin(t)
    \/ \E t \in Txns : VdLock(t)
    \/ \E t \in Txns : VdCommit(t)
    \/ \E t \in Txns : VdRollback(t)

SpecDuplo == InitDuplo /\ [][NextDuplo]_vars

\* The committed saida_venda moves of a sale.
SaidasDaVenda(d, s) ==
    {j \in 1..Len(d.stock_moves) :
        /\ d.stock_moves[j].tipo = "saida_venda"
        /\ d.stock_moves[j].ref_origem = "sale" /\ d.stock_moves[j].ref_id = s}

\* C33: payment is applied at most once per sale even when two pagar_venda
\* requests for the same open sale run at the same time: the committed result
\* holds at most one saida_venda StockMove per sale line.
C33_PagamentoUmaVez ==
    \A s \in 1..Len(db.sales) :
        Cardinality(SaidasDaVenda(db, s)) <= Cardinality(SaleItemIds(db, s))

-----------------------------------------------------------------------------
(* Two receipts of one purchase at the same time *)

MaxOpsRecebe == 6      \* SpecRecebe: no transaction begins at this audit log length

IdleRecebe == [pc |-> "idle", compra_id |-> NoId, itens |-> <<>>, compra |-> <<>>,
               restantes |-> <<>>, res |-> <<>>]

\* The row of purchase c in the table of locks: the flush's UPDATE of the
\* purchase holds it until the transaction ends.
PurchaseKey(c) == <<NoId, c>>

\* Two products and a sent purchase of one unit of each at 7.00.
PedidoDeDois ==
    LET d0 == [EmptyDb EXCEPT !.suppliers = <<Supplier(1, TRUE)>>]
        d1 == criar_produto(d0, 1, NoEan, 5000, 10000).db
        d2 == criar_produto(d1, 1, NoEan, 5000, 10000).db
        d3 == criar_pedido_compra(d2, 1, 1, <<Item(1, Um, 7000), Item(2, Um, 7000)>>).db
    IN enviar_compra(d3, 1).db

\* What a request may receive: one line of either product, at the ordered cost
\* or free of charge, both lines, or a line of no quantity.
ItensRecebidos ==
    {<<Rec(1, Um)>>, <<Rec(2, Um)>>, <<RecCusto(1, Um, 0)>>, <<RecCusto(2, Um, 0)>>,
     <<Rec(1, Um), Rec(2, Um)>>, <<Rec(1, 0)>>}

InitRecebe ==
    /\ db = PedidoDeDois
    /\ prev = PedidoDeDois
    /\ last = [op |-> "init", ok |-> TRUE, k |-> [compra_id |-> NoId]]
    /\ txn = [t \in Txns |-> IdleRecebe]
    /\ lock = [key \in DOMAIN PedidoDeDois.stock_items \cup {PurchaseKey(1)} |-> NoId]

\* The database as transaction t sees it: the committed rows, with the
\* Purchase object its session loaded at the beginning.
VistaDe(t) == [db EXCEPT !.purchases[txn[t].compra_id] = txn[t].compra[1]]

\* The rows the flush of a receipt writes, in the order it writes them: the
\* StockItem of each line, in line order, and the purchase row when
\* total_recebido changes; the place of the purchase among them is the unit
\* of work's.
EscritasDoFlush(d, c, itens, r, primeiro) ==
    LET linhas == [i \in 1..Len(itens) |-> <<d.purchases[c].store_id, itens[i].product_id>>]
        compra == IF r.db.purchases[c].total_recebido # d.purchases[c].total_recebido
                  THEN <<PurchaseKey(c)>> ELSE <<>>
    IN IF ~r.ok THEN <<>>     \* a refused line raises before anything is flushed
       ELSE IF primeiro THEN compra \o linhas ELSE linhas \o compra

\* receber_compra up to the autoflush of its StockMove query: the purchase was
\* read, unlocked, as receivable.
RcBegin(t) ==
    /\ txn[t].pc = "idle"
    /\ \E c \in 1..Len(db.purchases), itens \in ItensRecebidos, primeiro \in BOOLEAN :
           /\ PodeReceber(db, c)
           /\ txn' = [txn EXCEPT ![t] =
                         [pc |-> "flush", compra_id |-> c, itens |-> itens,
                          compra |-> <<db.purchases[c]>>,
                          restantes |-> EscritasDoFlush(db, c, itens,
                                                        receber_compra(db, c, itens), primeiro),
                          res |-> <<>>]]
    /\ UNCHANGED <<db, prev, last, lock>>

\* The next write of the flush takes its row: it goes on when no other
\* transaction holds the row and waits otherwise.
RcLock(t) ==
    /\ txn[t].pc = "flush" /\ txn[t].restantes # <<>>
    /\ RowLockFree(t, Head(txn[t].restantes))
    /\ lock' = [lock EXCEPT ![Head(txn[t].restantes)] = t]
    /\ txn' = [txn EXCEPT ![t].restantes = Tail(@)]
    /\ UNCHANGED <<db, prev, last>>

\* What a transaction holds of the result r of its call on the database d:
\* the rows it adds and the rows it changed.
Pendente(d, c, r) ==
    <<[ok |-> r.ok,
       mvs |-> SubSeq(r.db.stock_moves, Len(d.stock_moves) + 1, Len(r.db.stock_moves)),
       stock_items |-> r.db.stock_items,
       products |-> r.db.products,
       compra |-> r.db.purchases[c],
       payables |-> SubSeq(r.db.payables, Len(d.payables) + 1, Len(r.db.payables)),
       logs |-> SubSeq(r.db.audit_logs, Len(d.audit_logs) + 1, Len(r.db.audit_logs))]>>

\* The flush is done and the query of the purchase's entrada_compra moves
\* runs: it sees the committed moves and the transaction's own, and the rest
\* of receber_compra follows from it.
RcQuery(t) ==
    /\ txn[t].pc = "flush" /\ txn[t].restantes = <<>>
    /\ txn' = [txn EXCEPT
                 ![t].pc = "done",
                 ![t].res = Pendente(db, txn[t].compra_id,
                                     receber_compra(VistaDe(t), txn[t].compra_id, txn[t].itens))]
    /\ UNCHANGED <<db, prev, last, lock>>

\* The rows of the StockItems and Products that transaction t wrote.
Escritos(t) == {<<db.purchases[txn[t].compra_id].store_id, txn[t].itens[i].product_id>> :
                   i \in 1..Len(txn[t].itens)}

\* transaction(): commit writes the rows of the transaction and releases its locks.
RcCommit(t) ==
    /\ txn[t].pc = "done" /\ txn[t].res[1].ok
    /\ LET res == txn[t].res[1] IN
       db' = [db EXCEPT
                !.stock_moves = @ \o res.mvs,
                !.stock_items = [key \in DOMAIN db.stock_items |->
                                    IF key \in Escritos(t) THEN res.stock_items[key]
                                                            ELSE db.stock_items[key]],
                !.products = [i \in DOMAIN db.products |->
                                 IF \E key \in Escritos(t) : key[2] = i
                                 THEN res.products[i] ELSE db.products[i]],
                !.purchases[txn[t].compra_id] = res.compra,
                !.payables = @ \o res.payables,
                !.audit_logs = @ \o res.logs]
    /\ prev' = db
    /\ last' = [op |-> "receber_compra", ok |-> TRUE, k |-> [compra_id |-> txn[t].compra_id]]
    /\ lock' = [key \in DOMAIN lock |-> IF lock[key] = t THEN NoId ELSE lock[key]]
    /\ txn' = [txn EXCEPT ![t] = IdleRecebe]

\* transaction(): rollback discards them.
RcRollback(t) ==
    /\ txn[t].pc = "done" /\ ~txn[t].res[1].ok
    /\ db' = db
    /\ prev' = db
    /\ last' = [op |-> "receber_compra", ok |-> FALSE, k |-> [compra_id |-> txn[t].compra_id]]
    /\ lock' = [key \in DOMAIN lock |-> IF lock[key] = t THEN NoId ELSE lock[key]]
    /\ txn' = [txn EXCEPT ![t] = IdleRecebe]

NextRecebe ==
    \/ \E t \in Txns : Lim(MaxOpsRecebe) /\ RcBegin(t)
    \/ \E t \in Txns : RcLock(t)
    \/ \E t \in Txns : RcQuery(t)
    \/ \E t \in Txns : RcCommit(t)
    \/ \E t \in Txns : RcRollback(t)

SpecRecebe == InitRecebe /\ [][NextRecebe]_vars

\* There is at most one Payable per purchase.
UmPayablePorCompra ==
    \A c \in 1..Len(db.purchases) : Cardinality(PayablesDaCompra(db, c)) <= 1

\* The status of every sent purchase is the one its committed entrada_compra
\* moves call for.
StatusConformeEntradas ==
    \A c \in 1..Len(db.purchases) :
        db.purchases[c].status # "rascunho" =>
            LET pedido == SumQtd(db.purchase_items, PurchaseItemIds(db, c))
                recebido == SumQtd(db.stock_moves, EntradasDaCompra(db, c))
            IN db.purchases[c].status =
                   IF recebido = 0 THEN "emitida"
                   ELSE IF recebido < pedido THEN "parcialmente_recebida" ELSE "recebida"

\* C34: when two receber_compra requests for the same purchase run at the same
\* time and together complete the ordered quantity, the committed result holds
\* at most one Payable for the purchase and the purchase's status agrees with
\* the sum of all its committed entrada_compra moves.
C34_UmPayableEStatus == UmPayablePorCompra /\ StatusConformeEntradas

-----------------------------------------------------------------------------
(* The amount paid for a concluded sale *)

MaxOpsPago == 12       \* SpecPago: requests stop once the audit log has this many rows

\* DecimalMoneyField: the text of the field as a Decimal of two places.
DecimalMoneyField(valor_raw) == _as_money(valor_raw, RawScale)

\* SalePaymentForm: pagamento is one of the choices, valor_pago is given
\* (DataRequired refuses a zero Decimal) and is not negative.
SalePaymentForm(pagamento, valor_raw) ==
    /\ pagamento \in Pagamentos
    /\ DecimalMoneyField(valor_raw) # 0
    /\ ~(DecimalMoneyField(valor_raw) < 0)

\* POST /sale/<sale_id>/pay: a form that does not validate changes nothing.
sale_pay(PG, V) ==
    \E sale_id \in 1..Len(db.sales), pg \in PG, v \in V :
        IF SalePaymentForm(pg, v)
        THEN Request("pagar_venda",
                     [sale_id |-> sale_id, pagamento |-> pg,
                      valor_pago |-> DecimalMoneyField(v), customer_id |-> NoId],
                     pagar_venda(db, sale_id, pg, DecimalMoneyField(v) * RawScale, NoId))
        ELSE UNCHANGED vars

InitPago == InitDb(VendasComEstoque)

NextPago ==
    \/ Lim(MaxOpsPago) /\ sale_pay({"dinheiro", "cheque"}, {-10, 0, 10, 10000, 20000})
    \/ Lim(MaxOpsPago) /\ AdicionarItemVenda({Um}, {1})
    \/ Lim(MaxOpsPago) /\ CancelarVenda
    \/ Lim(MaxOpsPago) /\ AbrirVenda({1}, {Operador})

SpecPago == InitPago /\ [][NextPago]_vars

\* The sales that the last request concluded.
Concluidas ==
    {s \in 1..Len(db.sales) :
        /\ db.sales[s].status = "concluida"
        /\ ~(s \in 1..Len(prev.sales) /\ prev.sales[s].status = "concluida")}

\* C35: a sale becomes 'concluida' only by a pagar_venda of that sale whose
\* valor_pago is at least the total of the sale.
C35_NuncaSubpaga ==
    \A s \in Concluidas :
        /\ last.op = "pagar_venda" /\ last.ok /\ last.k.sale_id = s
        /\ last.k.valor_pago >= db.sales[s].total

\* The part of C35 that the code keeps: only pagar_venda concludes a sale.
SoPagarConclui ==
    \A s \in Concluidas : last.op = "pagar_venda" /\ last.ok /\ last.k.sale_id = s

\* A sale concluded by a positive payment below its total.
PagaMenosQueOTotal ==
    \E s \in Concluidas : 0 < last.k.valor_pago /\ last.k.valor_pago < db.sales[s].total

-----------------------------------------------------------------------------
(* What a received purchase has received of each product *)

\* The quantity of the entrada_compra moves of the purchase for one product.
RecebidoDoProduto(d, compra_id, product_id) ==
    SumQtd(d.stock_moves, {i \in EntradasDaCompra(d, compra_id) :
                              d.stock_moves[i].product_id = product_id})

\* C36: while a purchase is 'recebida', every product ordered on it has been
\* received in at least the quantity of its PurchaseItem.
C36_RecebidaTemTudo ==
    \A c \in 1..Len(db.purchases) :
        db.purchases[c].status = "recebida" =>
            \A i \in PurchaseItemIds(db, c) :
                RecebidoDoProduto(db, c, db.purchase_items[i].product_id)
                    >= db.purchase_items[i].qtd

\* A purchase closed with nothing received of one of its products.
RecebidaSemUmProduto ==
    \E c \in 1..Len(db.purchases) :
        /\ db.purchases[c].status = "recebida"
        /\ \E i \in PurchaseItemIds(db, c) :
               RecebidoDoProduto(db, c, db.purchase_items[i].product_id) = 0

-----------------------------------------------------------------------------
(* Reconciling against the snapshot of the count *)

\* The k-th smallest element of a set of numbers.
Enesimo(S, k) == CHOOSE x \in S : Cardinality({y \in S : y < x}) = k - 1

AuditRows(d, entidade, acao) ==
    {j \in 1..Len(d.audit_logs) :
        d.audit_logs[j].entidade = entidade /\ d.audit_logs[j].acao = acao}

\* The place in the audit log of the last registrar_contagem of count row i:
\* its 'created' entry or the latest 'updated' entry that names it.
UltimaContagem(d, i) ==
    LET criada == Enesimo(AuditRows(d, "InventoryCount", "created"), i)
        atualizadas == {j \in AuditRows(d, "InventoryCount", "updated") :
                           d.audit_logs[j].entidade_id = i}
    IN CHOOSE x \in atualizadas \cup {criada} :
           \A y \in atualizadas \cup {criada} : y <= x

\* The manual adjustments of the product logged after the last count of row i.
MovesDesdeAContagem(d, i) ==
    LET ajustes == AuditRows(d, "StockMove", "adjust")
        manuais == {m \in 1..Len(d.stock_moves) : d.stock_moves[m].ref_origem = "none"}
    IN {k \in 1..Cardinality(ajustes) :
           /\ Enesimo(ajustes, k) > UltimaContagem(d, i)
           /\ d.stock_moves[Enesimo(manuais, k)].product_id
                  = d.inventory_counts[i].product_id}

ConciliouSessao == last.op = "conciliar_inventario" /\ last.ok

ChaveDaContagem(i) == <<last.k.store_id, prev.inventory_counts[i].product_id>>

\* A successful conciliar_inventario moves the on-hand quantity of each counted
\* product by counted - snapshot.
AjustaPeloSnapshot ==
    ConciliouSessao =>
        \A i \in CountIds(prev, last.k.session_id) :
            db.stock_items[ChaveDaContagem(i)] - prev.stock_items[ChaveDaContagem(i)]
                = prev.inventory_counts[i].qtd_contada - prev.inventory_counts[i].qtd_atual

\* A reconciliation with a saida adjustment above the on-hand quantity fails
\* whole: nothing is written, the session stays open, no count is marked.
FalhaInteira ==
    (ConciliaSessaoAberta /\ SaidaExcede) =>
        /\ ~last.ok /\ db = prev
        /\ db.inventory_sessions[last.k.session_id].aberta
        /\ \A i \in CountIds(db, last.k.session_id) : ~db.inventory_counts[i].conciliado

\* C37 as stated: the adjustment is counted - snapshot, so that on-hand equals
\* the counted quantity afterwards if and only if no stock move of the product
\* was applied between its last count and the reconciliation; a saida
\* adjustment above the on-hand quantity fails the whole reconciliation.
C37_SnapshotSeESoSe ==
    /\ AjustaPeloSnapshot
    /\ FalhaInteira
    /\ ConciliouSessao =>
           \A i \in CountIds(prev, last.k.session_id) :
               (db.stock_items[ChaveDaContagem(i)] = prev.inventory_counts[i].qtd_contada)
                   <=> (MovesDesdeAContagem(prev, i) = {})

\* C37 amended: the adjustment is counted - snapshot, so that on-hand equals
\* the counted quantity afterwards if and only if the on-hand quantity at the
\* reconciliation equals the snapshot, which is so whenever no stock move of
\* the product was applied since its last count; a saida adjustment above the
\* on-hand quantity fails the whole reconciliation.
C37_Snapshot ==
    /\ AjustaPeloSnapshot
    /\ FalhaInteira
    /\ ConciliouSessao =>
           \A i \in CountIds(prev, last.k.session_id) :
               /\ (db.stock_items[ChaveDaContagem(i)] = prev.inventory_counts[i].qtd_contada)
                      <=> (prev.stock_items[ChaveDaContagem(i)]
                               = prev.inventory_counts[i].qtd_atual)
               /\ (MovesDesdeAContagem(prev, i) = {}) =>
                      db.stock_items[ChaveDaContagem(i)] = prev.inventory_counts[i].qtd_contada

\* A reconciliation that left the on-hand quantity of a product different from
\* its counted quantity, the stock having moved after the count.
C37_Witness ==
    /\ ConciliouSessao
    /\ \E i \in CountIds(prev, last.k.session_id) :
           /\ MovesDesdeAContagem(prev, i) # {}
           /\ db.stock_items[ChaveDaContagem(i)] # prev.inventory_counts[i].qtd_contada
           /\ prev.inventory_counts[i].qtd_contada # prev.inventory_counts[i].qtd_atual

\* The stock moved after the count and came back to the snapshot.
MoveuEVoltou ==
    /\ ConciliouSessao
    /\ \E i \in CountIds(prev, last.k.session_id) :
           /\ MovesDesdeAContagem(prev, i) # {}
           /\ db.stock_items[ChaveDaContagem(i)] = prev.inventory_counts[i].qtd_contada

\* The reconciliation failed on a saida adjustment above the on-hand quantity.
FalhouPorFalta == ConciliaSessaoAberta /\ SaidaExcede /\ ~last.ok

-----------------------------------------------------------------------------
(* The bounds of the average cost *)

MaxOpsLimites == 12     \* SpecLimites: requests stop at this audit log length

\* A product of cost custo_raw with qtd_raw brought in by adjustment, a sent
\* purchase of it, a paid sale of one unit of it and an open sale of another.
ProdutoComVendas(custo_raw, qtd_raw) ==
    LET d1 == ProdutoComEstoque(custo_raw, qtd_raw)
        d2 == abrir_venda(d1, 1, Operador).db
        d3 == adicionar_item_venda(d2, 1, 1, Um, NoId).db
        d4 == pagar_venda(d3, 1, "dinheiro", 20000, NoId).db
        d5 == abrir_venda(d4, 1, Operador).db
    IN adicionar_item_venda(d5, 2, 1, Um, NoId).db

InitLimites ==
    \E custo_raw \in {0, 5000}, qtd_raw \in {2 * Um, 3 * Um} :
        InitDb(ProdutoComVendas(custo_raw, qtd_raw))

NextLimites ==
    \/ Lim(MaxOpsLimites)
       /\ ReceberCompra({<<RecCusto(1, Um, c)>> : c \in {NoCusto, -10, 0, 8000}})
    \/ Lim(MaxOpsLimites) /\ AjusteEstoque({1}, {Um}, {"entrada_ajuste", "saida_ajuste"})
    \/ Lim(MaxOpsLimites) /\ PagarVenda({"dinheiro"}, {20000}, {NoId})
    \/ Lim(MaxOpsLimites) /\ CancelarVenda
    \/ Lim(MaxOpsLimites) /\ CriarProduto({1}, {NoEan}, {-10, 5000}, {10000})

SpecLimites == InitLimites /\ [][NextLimites]_vars

Min(a, b) == IF a <= b THEN a ELSE b

\* The request just made inserted no entrada_compra move.
SemEntradaDeCompra ==
    \A j \in 1..Len(NovosMoves) : NovosMoves[j].tipo # "entrada_compra"

\* C38: an entrada_compra move of cost c on a product of cost C leaves
\* custo_atual between min(C, c) and max(C, c), and equal to c when nothing was
\* on hand before it; custo_atual is never negative; moves of the other types
\* leave it as it was.
C38_CustoDentroDosLimites ==
    /\ UmaEntrada =>
           LET mv == db.stock_moves[Len(db.stock_moves)]
               C == prev.products[mv.product_id].custo_atual
               novo == db.products[mv.product_id].custo_atual
           IN /\ mv.tipo = "entrada_compra"
              /\ Min(C, mv.custo) <= novo /\ novo <= Max(C, mv.custo)
              /\ prev.stock_items[<<mv.store_id, mv.product_id>>] = 0 => novo = mv.custo
    /\ \A p \in 1..Len(db.products) : db.products[p].custo_atual >= 0
    /\ SemEntradaDeCompra =>
           \A p \in 1..Len(prev.products) :
               db.products[p].custo_atual = prev.products[p].custo_atual

\* An entry at a cost above the product's, with stock on hand, left the cost
\* strictly between the two, after moves of the four other types.
C38_Witness ==
    /\ UmaEntrada
    /\ prev.stock_items[<<1, 1>>] > 0
    /\ prev.products[1].custo_atual < db.products[1].custo_atual
    /\ db.products[1].custo_atual < db.stock_moves[Len(db.stock_moves)].custo
    /\ \A t \in {"entrada_ajuste", "saida_ajuste", "saida_venda", "devolucao"} :
           \E j \in 1..Len(prev.stock_moves) : prev.stock_moves[j].tipo = t

\* An entry with nothing on hand set the cost to the cost of the entry.
EntradaComEstoqueZero ==
    /\ UmaEntrada
    /\ prev.stock_items[<<1, 1>>] = 0
    /\ prev.products[1].custo_atual # db.products[1].custo_atual

-----------------------------------------------------------------------------
(* The life of a purchase *)

\* The place of a status in the order rascunho, emitida, parcialmente_recebida,
\* recebida; any other status has no place.
OrdemDoStatus(status) ==
    CASE status = "rascunho" -> 1
      [] status = "emitida" -> 2
      [] status = "parcialmente_recebida" -> 3
      [] status = "recebida" -> 4
      [] OTHER -> 0

\* C39: the status of a purchase only advances in the order rascunho, emitida,
\* parcialmente_recebida, recebida; once recebida, no entrada_compra move and
\* no Payable is added for it; a purchase in rascunho has no entrada_compra
\* move; no purchase is ever cancelada.
C39_StatusMonotono ==
    /\ \A c \in 1..Len(db.purchases) :
           /\ OrdemDoStatus(db.purchases[c].status) >= 1
           /\ db.purchases[c].status = "rascunho" => EntradasDaCompra(db, c) = {}
    /\ \A c \in 1..Len(prev.purchases) :
           /\ OrdemDoStatus(db.purchases[c].status) >= OrdemDoStatus(prev.purchases[c].status)
           /\ prev.purchases[c].status = "recebida" =>
                  /\ db.purchases[c].status = "recebida"
                  /\ EntradasDaCompra(db, c) = EntradasDaCompra(prev, c)
                  /\ PayablesDaCompra(db, c) = PayablesDaCompra(prev, c)

\* A receipt was refused on a purchase already recebida, which keeps its two
\* entrada_compra moves and its Payable.
C39_Witness ==
    /\ last.op = "receber_compra" /\ ~last.ok /\ last.k.itens # <<>>
    /\ db.purchases[last.k.compra_id].status = "recebida"
    /\ Cardinality(EntradasDaCompra(db, last.k.compra_id)) = 2
    /\ PayablesDaCompra(db, last.k.compra_id) # {}

\* A receipt moved a purchase from parcialmente_recebida to recebida.
ParcialCompletada ==
    /\ last.op = "receber_compra" /\ last.ok
    /\ prev.purchases[last.k.compra_id].status = "parcialmente_recebida"
    /\ db.purchases[last.k.compra_id].status = "recebida"

====
